---- MODULE Spec2Model ----
(***************************************************************************)
(* State-machine model of lib/abrp.js, the OVMS plugin that samples the    *)
(* vehicle's metrics and sends them to ABRP.  The file holds release 2.1.0 *)
(* (lines 1-662) followed by 2.2.0-beta (lines 664-1423); the function     *)
(* declarations of 2.2.0-beta are the ones in force, and they are what     *)
(* this module models: the telemetry queue, the bulk sender and the        *)
(* subscription lifecycle.                                                 *)
(*                                                                         *)
(* One action is one run-to-completion invocation of a handler by the      *)
(* single-threaded script engine: a shell command, a PubSub event handler  *)
(* or an HTTP completion callback.  HTTP.Request only registers a request; *)
(* its callbacks run in a later step.                                      *)
(***************************************************************************)
EXTENDS Integers, Sequences, FiniteSets, TLC

VARIABLES
  cfgToken,            \* OvmsConfig usr/abrp.user_token ("" when unset)
  user_token,          \* module variable user_token
  isActive,            \* module variable isActive
  subs,                \* PubSub: topic -> number of subscribed handlers
  collectedMetrics,    \* module variable collectedMetrics
  telemetryToSend,     \* module variable telemetryToSend (the queue)
  lastSentTelemetry,   \* module variable lastSentTelemetry
  bulkInFlight,        \* bulk HTTP requests whose callbacks have not run yet
  singleInFlight,      \* single-send HTTP requests whose callbacks have not run
                       \* (the token of each; its tlm is createTelemetry of the
                       \* step that issued it and is read by no handler)
  lastNotify,          \* what the handler that ran last reported, in order:
                       \* its OvmsNotify.Raise notifications and the
                       \* Console.warn of send()
  now,                 \* the clock: 0 while m.time.utc has no value yet (no
                       \* GPS or network time), then an index into Instants
  raw,                 \* the other fresh raw metrics: id -> value
  vehicleType,         \* v.type as overrideMetricMap() read it when the
                       \* module was loaded: which metricMap is in force
  seq,                 \* history: number of snapshots enqueued so far
  acked,               \* history: seq of every snapshot still queued that
                       \* a request answered with status 200 carried
  delivered,           \* history, kept in the behaviours that start with
                       \* one (<<S>>; <<>> otherwise): S holds the seq of
                       \* every snapshot a request answered with status 200
                       \* carried
  lastPowerEvent,      \* history, kept in the behaviours that start with
                       \* one (<<>> otherwise): <<e>>, e the vehicle.on or
                       \* vehicle.off event a handler saw last ("none"
                       \* before the first)
  lastCompletion,      \* history: how a bulk request completed, if that is
                       \* what the plugin did last ("none" otherwise)
  subscribedLowFrequency,   \* module variable of release 2.1.0
  subscribedHighFrequency,  \* module variable of release 2.1.0
  result               \* the last call of a helper function made on its
                       \* own: its name, its arguments and what it returned

vars == <<cfgToken, user_token, isActive, subs, collectedMetrics,
          telemetryToSend, lastSentTelemetry, bulkInFlight, singleInFlight,
          lastNotify, now, raw, vehicleType, seq, acked, delivered,
          lastPowerEvent, lastCompletion, subscribedLowFrequency,
          subscribedHighFrequency, result>>

(***************************************************************************)
(* Bounds of the model.                                                    *)
(***************************************************************************)
\* snapshots enqueued in one behaviour of Spec
MaxEnqueues == 2
\* snapshots enqueued in one behaviour of SpecBulk (more than one batch)
MaxBulkEnqueues == 11
\* bulk HTTP requests that may be outstanding together in Spec
MaxInFlight == 2
\* bulk HTTP requests that may be outstanding together in SpecBulk
MaxBulkInFlight == 1
\* single-send HTTP requests that may be outstanding together
MaxSingleInFlight == 1
\* subscriptions to one topic that are told apart: a count of MaxSubs stands
\* for MaxSubs or more
MaxSubs == 2
\* instants of Instants the clock may reach
MaxInstant == 3
\* snapshots enqueued in one behaviour of SpecOverflow
MaxOverflowEnqueues == 101

(***************************************************************************)
(* Program constants.                                                      *)
(***************************************************************************)
\* BANDWIDTH_SAVER of a build that minimizes the data sent
BandwidthSaverOn == TRUE

BANDWIDTH_SAVER == FALSE
MIN_CALIBRATION_SPEED == 70
METRIC_POLL_RATE_DRIVING == 5
METRIC_POLL_RATE_CHARGING == 30 * 60
TELEMETRY_TRANSMIT_RATE == 60
METRIC_POLL_STALE_CONNECTION == (3 * 60) - 20 - TELEMETRY_TRANSMIT_RATE
\* telemetryToSend.slice(0, 10)
BULK_LIMIT == 10
\* 24 * 3600, the budget of a parked vehicle
PARKED_POLL_RATE == 24 * 3600

\* The capacity N of the transmission queue, at its default.  The plugin
\* defines no capacity; the value is the one its specification gives.
QueueCapacity == 100

NoToken == ""
Tokens == {"tok"}

Min(a, b) == IF a <= b THEN a ELSE b

(***************************************************************************)
(* The environment: the clock and the raw metrics.                         *)
(***************************************************************************)
\* 2023-11-14T22:14:00Z, a multiple of TELEMETRY_TRANSMIT_RATE
Epoch == 28333334 * TELEMETRY_TRANSMIT_RATE

\* The values m.time.utc takes, in order.
Instants == <<Epoch + 60, Epoch + 62, Epoch + 170, Epoch + 240,
              Epoch + 2100>>

Clock == Instants[now]

\* OvmsMetrics.HasValue('m.time.utc')
utcFresh == now > 0

\* States of the vehicle: the fresh raw metrics other than m.time.utc.
\* Power (kW) and speed (kph) are held in hundredths: 1250 is 12.5 kW and
\* 5000 is 50 kph, so that round(x, 2) and round(x) are exact on integers.
Driving(speed) ==
  [id \in {"v.b.soc", "v.b.power", "v.p.speed", "v.c.charging", "v.c.mode",
           "v.e.parktime", "v.e.on"} |->
     CASE id = "v.b.soc" -> 50
       [] id = "v.b.power" -> 1250
       [] id = "v.p.speed" -> speed
       [] id = "v.c.charging" -> FALSE
       [] id = "v.c.mode" -> "standard"
       [] id = "v.e.parktime" -> 0
       [] id = "v.e.on" -> TRUE]

Parked(charging, mode, soc, power) ==
  [id \in {"v.b.soc", "v.b.power", "v.p.speed", "v.c.charging", "v.c.mode",
           "v.e.parktime", "v.e.on"} |->
     CASE id = "v.b.soc" -> soc
       [] id = "v.b.power" -> power
       [] id = "v.p.speed" -> 0
       [] id = "v.c.charging" -> charging
       [] id = "v.c.mode" -> mode
       [] id = "v.e.parktime" -> 30
       [] id = "v.e.on" -> FALSE]

\* r with the metric id stale
Stale(r, id) == [i \in DOMAIN r \ {id} |-> r[i]]

Situations ==
  { Driving(5000),
    Parked(FALSE, "standard", 50, 0),
    Parked(TRUE, "standard", 50, -700) }

\* OvmsMetrics: every raw metric that has a value now
Fresh == IF utcFresh THEN ("m.time.utc" :> Clock) @@ raw ELSE raw

(***************************************************************************)
(* JavaScript values.  A snapshot is a function from the keys it holds to  *)
(* their values; reading a key it does not hold gives undefined.           *)
(***************************************************************************)
Has(t, k) == k \in DOMAIN t

\* !t[k] for a boolean-valued key
Falsy(t, k) == ~Has(t, k) \/ t[k] = FALSE

\* t[k] as a condition, for a boolean-valued key
Truthy(t, k) == Has(t, k) /\ t[k] = TRUE

\* a[k] !== b[k] if undefined were, like NaN, different from itself
StrictNeOrAbsent(a, b, k) ==
  \/ ~Has(a, k)
  \/ ~Has(b, k)
  \/ Has(a, k) /\ Has(b, k) /\ a[k] # b[k]

\* a[k] !== b[k]
StrictNe(a, b, k) ==
  \/ Has(a, k) # Has(b, k)
  \/ Has(a, k) /\ Has(b, k) /\ a[k] # b[k]

\* a.utc - b.utc is a number (not NaN)
IsNumber(a, b) == Has(a, "utc") /\ Has(b, "utc")

\* a.utc - b.utc >= d; false when the difference is NaN
ElapsedAtLeast(a, b, d) == IsNumber(a, b) /\ a["utc"] - b["utc"] >= d

(***************************************************************************)
(* Helper functions of the plugin.                                         *)
(***************************************************************************)
Abs(x) == IF x < 0 THEN -x ELSE x

\* round(number, precision) on a number held in hundredths: toFixed rounds
\* half away from zero; a falsy number (0) is returned as it is.  With
\* precision 2 a value held in hundredths is unchanged.
round(number, precision) ==
  IF number = 0 THEN number
  ELSE IF precision = 2 THEN number
  ELSE LET q == (Abs(number) + 50) \div 100
       IN  IF number < 0 THEN -(q * 100) ELSE q * 100

\* round(t.power): undefined stays undefined
RoundedPower(t) == IF Has(t, "power") THEN <<round(t["power"], 0)>> ELSE <<>>

(***************************************************************************)
(* metricMap: the fields the sampler and the sender read, and the entries  *)
(* that have no requiredMetrics, none in it, two in it, or that            *)
(* overrideMetricMap() changes.  The other entries are like soc.           *)
(***************************************************************************)
Keys == {"utc", "soc", "power", "speed", "is_charging", "is_dcfc", "is_parked",
         "capacity", "soe", "soh", "est_battery_range", "hvac_power"}

\* the vehicle types overrideMetricMap() has a case for, and one it has not
Unlisted == "other"
VehicleTypes == {"KS", "NL", "SUBSOL", "TOYBZ4X", Unlisted}

\* entry.requiredMetrics as metricMap declares it: <<>> is undefined,
\* <<S>> the array of the identifiers in S
declaredMetrics(key) ==
  CASE key = "utc" -> <<{"m.time.utc"}>>
    [] key = "soc" -> <<{"v.b.soc"}>>
    [] key = "power" -> <<{"v.b.power"}>>
    [] key = "speed" -> <<{"v.p.speed"}>>
    [] key = "is_charging" -> <<{"v.c.charging"}>>
    [] key = "is_dcfc" -> <<{"v.c.mode"}>>
    [] key = "is_parked" -> <<{"v.e.parktime"}>>
    [] key = "capacity" -> <<>>
    [] key = "soe" -> <<>>
    [] key = "soh" -> <<{"v.b.soh"}>>
    [] key = "est_battery_range" -> <<{"v.b.range.est"}>>
    [] key = "hvac_power" -> <<{}>>

\* entry.metric as metricMap declares it: <<>> is undefined; <<id>> is the
\* function that returns the raw metric id, and the other names stand for
\* the functions that compute
declaredMetric(key) ==
  CASE key = "utc" -> <<"m.time.utc">>
    [] key = "soc" -> <<"v.b.soc">>
    [] key = "power" -> <<"v.b.power">>
    [] key = "speed" -> <<"v.p.speed">>
    [] key = "is_charging" -> <<"v.c.charging">>
    [] key = "is_dcfc" -> <<"v.c.mode === 'performance'">>
    [] key = "is_parked" -> <<"v.e.parktime > 0">>
    [] key = "capacity" -> <<>>
    [] key = "soe" -> <<>>
    [] key = "soh" -> <<"v.b.soh">>
    [] key = "est_battery_range" -> <<"v.b.range.est">>
    [] key = "hvac_power" -> <<>>

metricMap ==
  [key \in Keys |-> [requiredMetrics |-> declaredMetrics(key),
                     metric |-> declaredMetric(key)]]

\* overrideMetricMap() with a default case that does what the case KS does
overrideMetricMapDefault(type, map) ==
  [key \in DOMAIN map |->
     CASE type = "NL" /\ key = "soc" ->
            [requiredMetrics |-> <<{"xnl.v.b.soc.instrument"}>>,
             metric |-> <<"xnl.v.b.soc.instrument">>]
       [] type = "NL" /\ key = "soh" ->
            [requiredMetrics |-> <<{"xnl.v.b.soh.instrument"}>>,
             metric |-> <<"xnl.v.b.soh.instrument">>]
       [] type = "NL" /\ key = "est_battery_range" ->
            [requiredMetrics |->
               <<{"xnl.v.b.range.instrument", "v.b.range.ideal"}>>,
             metric |-> <<"idealRange > 1.1 * instrumentRange">>]
       [] type \in {"SUBSOL", "TOYBZ4X"} /\ key = "is_parked" ->
            [requiredMetrics |-> <<{"v.e.gear"}>>,
             metric |-> <<"v.e.gear === 0">>]
       [] type \notin {"NL", "SUBSOL", "TOYBZ4X"} /\ key = "soh" ->
            [requiredMetrics |-> <<>>, metric |-> <<>>]
       [] OTHER -> map[key]]

\* metricMap after overrideMetricMap() ran on the catalog map while v.type
\* was type
overrideMetricMap(type, map) ==
  [key \in DOMAIN map |->
     CASE type = "KS" /\ key = "soh" ->
            [requiredMetrics |-> <<>>, metric |-> <<>>]
       [] type = "NL" /\ key = "soc" ->
            [requiredMetrics |-> <<{"xnl.v.b.soc.instrument"}>>,
             metric |-> <<"xnl.v.b.soc.instrument">>]
       [] type = "NL" /\ key = "soh" ->
            [requiredMetrics |-> <<{"xnl.v.b.soh.instrument"}>>,
             metric |-> <<"xnl.v.b.soh.instrument">>]
       [] type = "NL" /\ key = "est_battery_range" ->
            [requiredMetrics |->
               <<{"xnl.v.b.range.instrument", "v.b.range.ideal"}>>,
             metric |-> <<"idealRange > 1.1 * instrumentRange">>]
       [] type \in {"SUBSOL", "TOYBZ4X"} /\ key = "is_parked" ->
            [requiredMetrics |-> <<{"v.e.gear"}>>,
             metric |-> <<"v.e.gear === 0">>]
       [] OTHER -> map[key]]

\* entry.requiredMetrics of the catalog in force
requiredMetrics(key) ==
  overrideMetricMap(vehicleType, metricMap)[key].requiredMetrics

\* entry.metric(metrics) of the catalog in force, for an entry that has one
metric(key, metrics) ==
  LET f == overrideMetricMap(vehicleType, metricMap)[key].metric[1]
  IN  CASE f = "v.c.mode === 'performance'" ->
             metrics["v.c.mode"] = "performance"
        [] f = "v.e.parktime > 0" -> metrics["v.e.parktime"] > 0
        [] f = "v.e.gear === 0" -> metrics["v.e.gear"] = 0
        [] f = "idealRange > 1.1 * instrumentRange" ->
             IF 10 * metrics["v.b.range.ideal"]
                  > 11 * metrics["xnl.v.b.range.instrument"]
             THEN metrics["v.b.range.ideal"]
             ELSE metrics["xnl.v.b.range.instrument"]
        [] OTHER -> metrics[f]

isOvmsMetricSupported(required) == \A id \in required : id \in DOMAIN Fresh

\* getOVMSMetric(key)[0]
Supported(key) ==
  /\ requiredMetrics(key) # <<>>
  /\ requiredMetrics(key)[1] # {}
  /\ isOvmsMetricSupported(requiredMetrics(key)[1])

\* createTelemetry setting the key of an unsupported entry to null
createTelemetryOrNull ==
  [key \in Keys |-> IF Supported(key) THEN metric(key, Fresh) ELSE "null"]

createTelemetry == [key \in {k \in Keys : Supported(k)} |-> metric(key, Fresh)]

\* isSignificantTelemetryChange comparing the powers as they are, unrounded
isSignificantTelemetryChangeRaw(currentTelemetry, previousTelemetry) ==
  \/ StrictNe(currentTelemetry, previousTelemetry, "soc")
  \/ StrictNe(currentTelemetry, previousTelemetry, "is_charging")
  \/ StrictNe(currentTelemetry, previousTelemetry, "is_parked")
  \/ /\ Truthy(currentTelemetry, "is_charging")
     /\ StrictNe(currentTelemetry, previousTelemetry, "power")

isSignificantTelemetryChange(currentTelemetry, previousTelemetry) ==
  \/ StrictNe(currentTelemetry, previousTelemetry, "soc")
  \/ StrictNe(currentTelemetry, previousTelemetry, "is_charging")
  \/ StrictNe(currentTelemetry, previousTelemetry, "is_parked")
  \/ /\ Truthy(currentTelemetry, "is_charging")
     /\ RoundedPower(currentTelemetry) # RoundedPower(previousTelemetry)

\* calculateMaxElapsedDuration with the test of the speed made first
calculateMaxElapsedDurationSpeedFirst(telemetry) ==
  IF Has(telemetry, "speed")
     /\ telemetry["speed"] > MIN_CALIBRATION_SPEED * 100
    THEN METRIC_POLL_RATE_DRIVING
  ELSE IF isSignificantTelemetryChange(telemetry, lastSentTelemetry) THEN 0
  ELSE IF Falsy(telemetry, "is_parked") \/ Truthy(telemetry, "is_dcfc")
    THEN METRIC_POLL_STALE_CONNECTION
  ELSE IF Truthy(telemetry, "is_charging") THEN METRIC_POLL_RATE_CHARGING
  ELSE PARKED_POLL_RATE

calculateMaxElapsedDuration(telemetry) ==
  IF isSignificantTelemetryChange(telemetry, lastSentTelemetry) THEN 0
  ELSE IF Has(telemetry, "speed")
          /\ telemetry["speed"] > MIN_CALIBRATION_SPEED * 100
    THEN METRIC_POLL_RATE_DRIVING
  ELSE IF Falsy(telemetry, "is_parked") \/ Truthy(telemetry, "is_dcfc")
    THEN METRIC_POLL_STALE_CONNECTION
  ELSE IF Truthy(telemetry, "is_charging") THEN METRIC_POLL_RATE_CHARGING
  ELSE PARKED_POLL_RATE

(***************************************************************************)
(* The smoothing window.                                                   *)
(***************************************************************************)
\* The elements that array.slice().sort(by power) may hold at position i:
\* the sort leaves the order of equal powers open, and a comparator that
\* returns NaN (an element without power) leaves the whole order open.
SortedAt(array, i) ==
  IF \E j \in 1..Len(array) : ~Has(array[j], "power")
  THEN {array[j] : j \in 1..Len(array)}
  ELSE {array[j] : j \in
          {j \in 1..Len(array) :
             /\ Cardinality({m \in 1..Len(array) :
                   array[m]["power"] < array[j]["power"]}) < i
             /\ Cardinality({m \in 1..Len(array) :
                   array[m]["power"] <= array[j]["power"]}) >= i}}

\* medianPowerMetrics returning the upper middle of an even window
medianPowerMetricsUpper(array) ==
  IF Len(array) = 0 THEN {}
  ELSE SortedAt(array, (Len(array) \div 2) + 1)

\* The values medianPowerMetrics(array) may return; {} stands for null.
medianPowerMetrics(array) ==
  IF Len(array) = 0 THEN {}
  ELSE IF Len(array) % 2 = 0 THEN SortedAt(array, Len(array) \div 2)
  ELSE SortedAt(array, (Len(array) \div 2) + 1)

\* telemetry after telemetry.power = round(medianMetrics.power, 2) and
\* telemetry.speed = round(medianMetrics.speed); a key set to undefined is
\* a key the snapshot does not hold
Smoothed(telemetry, medianMetrics) ==
  [k \in (DOMAIN telemetry \ {"power", "speed"}) \cup
         ({"power", "speed"} \cap DOMAIN medianMetrics) |->
     IF k = "power" THEN round(medianMetrics["power"], 2)
     ELSE IF k = "speed" THEN round(medianMetrics["speed"], 0)
     ELSE telemetry[k]]

\* The snapshots queueTelemetry may push for telemetry when the window is
\* window.
Pushed(telemetry, processCollectedData, window) ==
  IF processCollectedData /\ Len(window) > 0
  THEN {Smoothed(telemetry, m) : m \in medianPowerMetrics(window)}
  ELSE {telemetry}

(***************************************************************************)
(* The queue and the bulk sender.  A queue entry is the pushed snapshot    *)
(* (tlm) tagged with its enqueue number (seq), which tells apart two       *)
(* snapshots with equal fields.                                            *)
(***************************************************************************)
\* queueTelemetry(telemetry, processCollectedData) when collectedMetrics is
\* window; lim holds the bounds of the behaviour
queueTelemetry(telemetry, processCollectedData, window, lim) ==
  /\ seq < lim.enqueues
  /\ \E t \in Pushed(telemetry, processCollectedData, window) :
       /\ telemetryToSend' = Append(telemetryToSend,
                                    [seq |-> seq + 1, tlm |-> t])
       /\ lastSentTelemetry' = t
  /\ collectedMetrics' = <<>>
  /\ seq' = seq + 1

\* removeTelemetry(count) taking the entries from the end of the queue:
\* q.splice(-count, count)
removeTelemetryNewest(q, count) == SubSeq(q, 1, Len(q) - Min(count, Len(q)))

\* removeTelemetry(count) applied to the queue q: q.splice(0, count)
removeTelemetry(q, count) == SubSeq(q, Min(count, Len(q)) + 1, Len(q))

\* the seq of the entries of the queue or list q
SeqsOf(q) == {q[j].seq : j \in 1..Len(q)}

\* the tlm_list of a bulk request
TlmList(request) == request.post.data[1].tlm_list

\* createBulkPost with the slice forgotten: the whole queue in one request
createBulkPostUncapped(q, token) ==
  [data |-> << [token |-> token, tlm_list |-> q] >>]

\* createBulkPost() when the queue is q and the token is token
createBulkPost(q, token) ==
  [data |-> << [token |-> token,
                tlm_list |-> SubSeq(q, 1, Min(Len(q), BULK_LIMIT))] >>]

\* sendBulkTelemetry(): the request handed to HTTP.Request, with the count
\* its done callback closes over
sendBulkTelemetry(q, token) ==
  LET bulkPost == createBulkPost(q, token)
  IN  [post |-> bulkPost, count |-> Len(bulkPost.data[1].tlm_list)]

\* processTelemetryQueue(): the requests it issues when the queue is q
processTelemetryQueue(q, token) ==
  IF Len(q) > 0 THEN <<sendBulkTelemetry(q, token)>> ELSE <<>>

\* HTTP.Request for the requests reqs
Issue(reqs, lim) ==
  /\ Len(bulkInFlight) + Len(reqs) <= lim.inFlight
  /\ bulkInFlight' = bulkInFlight \o reqs

\* s without its i-th element
RemoveAt(s, i) == SubSeq(s, 1, i - 1) \o SubSeq(s, i + 1, Len(s))

(***************************************************************************)
(* Subscriptions.                                                          *)
(***************************************************************************)
Topics == {"ticker.1", "vehicle.on", "vehicle.charge.start", "vehicle.off",
           "vehicle.charge.stop"}

VehicleTopics == Topics \ {"ticker.1"}

\* PubSub.subscribe of one handler on each topic of ts
Subscribe(sb, ts) ==
  [t \in Topics |-> IF t \in ts THEN Min(sb[t] + 1, MaxSubs) ELSE sb[t]]

\* PubSub.unsubscribe(topic) for each topic of ts
Unsubscribe(sb, ts) == [t \in Topics |-> IF t \in ts THEN 0 ELSE sb[t]]

(***************************************************************************)
(* Handlers.                                                               *)
(***************************************************************************)
queueVars == <<collectedMetrics, telemetryToSend, lastSentTelemetry, seq>>
envVars == <<now, raw>>
\* the module variables that only the functions of release 2.1.0 write
flags == <<subscribedLowFrequency, subscribedHighFrequency>>
\* what no handler writes
readOnly == <<envVars, vehicleType, flags, result>>

\* user_token after validateUsrAbrpConfig(); it returns true iff this is set
Validated == IF user_token = NoToken THEN cfgToken ELSE user_token

\* validateUsrAbrpConfig() returning false
TokenNotSet == "error: ABRP::config usr abrp.user_token not set"

\* the Console.warn of send() when there is nothing to start or to stop
Already == IF isActive THEN "warn: Already running!"
           ELSE "warn: Already stopped!"

queueTelemetryManual(lim) ==
  queueTelemetry(createTelemetry, BANDWIDTH_SAVER, collectedMetrics, lim)

\* callbackVehicleOn() when the subscriptions are sb
callbackVehicleOn(sb, lim) ==
  /\ queueTelemetryManual(lim)
  /\ subs' = Subscribe(sb, {"ticker.1"})

\* callbackVehicleOff() without its PubSub.unsubscribe('ticker.1')
callbackVehicleOffStillTicking(sb, token, lim) ==
  /\ subs' = sb
  /\ queueTelemetryManual(lim)
  /\ Issue(processTelemetryQueue(telemetryToSend', token), lim)

\* callbackVehicleOff() when the subscriptions are sb and the token is token
callbackVehicleOff(sb, token, lim) ==
  /\ subs' = Unsubscribe(sb, {"ticker.1"})
  /\ queueTelemetryManual(lim)
  /\ Issue(processTelemetryQueue(telemetryToSend', token), lim)

manageVehicleStateEvents(subscribe, token, lim) ==
  /\ IF subscribe
     THEN IF raw["v.e.on"]
          THEN /\ callbackVehicleOn(Subscribe(subs, VehicleTopics), lim)
               /\ UNCHANGED bulkInFlight
          ELSE /\ subs' = Subscribe(subs, VehicleTopics)
               /\ UNCHANGED <<queueVars, bulkInFlight>>
     ELSE callbackVehicleOff(Unsubscribe(subs, VehicleTopics), token, lim)
  /\ isActive' = subscribe

\* send(shouldSend) without its tests of isActive: it starts or stops again
SendAgain(shouldSend, lim) ==
  /\ user_token' = Validated
  /\ IF Validated = NoToken
     THEN /\ lastNotify' = <<TokenNotSet>>
          /\ UNCHANGED <<isActive, subs, queueVars, bulkInFlight>>
     ELSE /\ manageVehicleStateEvents(shouldSend, Validated, lim)
          /\ lastNotify' = <<>>
  /\ lastCompletion' = "none"
  /\ UNCHANGED <<cfgToken, singleInFlight, readOnly, acked, delivered,
                 lastPowerEvent>>

\* send(shouldSend) without its test of validateUsrAbrpConfig(): it starts
\* or stops whether or not a token is set
SendUnvalidated(shouldSend, lim) ==
  /\ user_token' = Validated
  /\ IF shouldSend # isActive
     THEN /\ manageVehicleStateEvents(shouldSend, Validated, lim)
          /\ lastNotify' = <<>>
     ELSE /\ UNCHANGED <<isActive, subs, queueVars, bulkInFlight>>
          /\ lastNotify' = <<Already>>
  /\ lastCompletion' = "none"
  /\ UNCHANGED <<cfgToken, singleInFlight, readOnly, acked, delivered,
                 lastPowerEvent>>

\* send(shouldSend), a shell command
Send(shouldSend, lim) ==
  /\ user_token' = Validated
  /\ IF Validated = NoToken
     THEN /\ lastNotify' = <<TokenNotSet>>
          /\ UNCHANGED <<isActive, subs, queueVars, bulkInFlight>>
     ELSE IF shouldSend # isActive
          THEN /\ manageVehicleStateEvents(shouldSend, Validated, lim)
               /\ lastNotify' = <<>>
          ELSE /\ UNCHANGED <<isActive, subs, queueVars, bulkInFlight>>
               /\ lastNotify' = <<Already>>
  /\ lastCompletion' = "none"
  /\ UNCHANGED <<cfgToken, singleInFlight, readOnly, acked, delivered,
                 lastPowerEvent>>

\* onetime(), a shell command
Onetime ==
  /\ user_token' = Validated
  /\ IF Validated = NoToken
     THEN /\ lastNotify' = <<TokenNotSet>>
          /\ UNCHANGED singleInFlight
     ELSE /\ Len(singleInFlight) < MaxSingleInFlight
          /\ singleInFlight' = Append(singleInFlight, [token |-> Validated])
          /\ lastNotify' = <<>>
  /\ lastCompletion' = "none"
  /\ UNCHANGED <<cfgToken, isActive, subs, queueVars, bulkInFlight, readOnly,
                 acked, delivered, lastPowerEvent>>

\* resetConfig(), a shell command
ResetConfig(lim) ==
  /\ user_token' = Validated
  /\ IF Validated # NoToken /\ isActive
     THEN manageVehicleStateEvents(FALSE, Validated, lim)
     ELSE UNCHANGED <<isActive, subs, queueVars, bulkInFlight>>
  /\ cfgToken' = NoToken
  /\ lastNotify' = (IF Validated = NoToken THEN <<TokenNotSet>>
                    ELSE IF isActive THEN <<>> ELSE <<Already>>)
                   \o <<"info: ABRP::usr abrp config reset">>
  /\ lastCompletion' = "none"
  /\ UNCHANGED <<singleInFlight, readOnly, acked, delivered,
                 lastPowerEvent>>

\* queueTelemetryIfNecessary(), the handler of ticker.1
Tick(lim) ==
  LET currentTelemetry == createTelemetry
      flush == /\ Has(currentTelemetry, "utc")
               /\ currentTelemetry["utc"] % TELEMETRY_TRANSMIT_RATE = 0
      window == IF Falsy(currentTelemetry, "is_parked")
                THEN Append(collectedMetrics, currentTelemetry)
                ELSE collectedMetrics
  IN  /\ subs["ticker.1"] > 0
      /\ Issue(IF flush
               THEN processTelemetryQueue(telemetryToSend, user_token)
               ELSE <<>>, lim)
      /\ IF ~BANDWIDTH_SAVER /\ Falsy(currentTelemetry, "is_parked")
         THEN IF ElapsedAtLeast(currentTelemetry, lastSentTelemetry,
                                METRIC_POLL_RATE_DRIVING)
              THEN queueTelemetry(currentTelemetry, BANDWIDTH_SAVER,
                                  collectedMetrics, lim)
              ELSE UNCHANGED queueVars
         ELSE IF ElapsedAtLeast(currentTelemetry, lastSentTelemetry,
                                calculateMaxElapsedDuration(currentTelemetry))
              THEN queueTelemetry(currentTelemetry, BANDWIDTH_SAVER,
                                  window, lim)
              ELSE /\ collectedMetrics' = window
                   /\ UNCHANGED <<telemetryToSend, lastSentTelemetry, seq>>
      /\ lastCompletion' = "none"
      /\ lastNotify' = <<>>
      /\ UNCHANGED <<cfgToken, user_token, isActive, subs, singleInFlight,
                     readOnly, acked, delivered, lastPowerEvent>>

\* lastPowerEvent after a handler saw an event on topic
PowerEventAfter(topic) ==
  IF lastPowerEvent # <<>> /\ topic \in {"vehicle.on", "vehicle.off"}
  THEN <<topic>>
  ELSE lastPowerEvent

\* An event on vehicle.on or vehicle.charge.start: callbackVehicleOn()
VehicleOn(topic, lim) ==
  /\ topic \in {"vehicle.on", "vehicle.charge.start"}
  /\ subs[topic] > 0
  /\ callbackVehicleOn(subs, lim)
  /\ lastCompletion' = "none"
  /\ lastNotify' = <<>>
  /\ lastPowerEvent' = PowerEventAfter(topic)
  /\ UNCHANGED <<cfgToken, user_token, isActive, bulkInFlight,
                 singleInFlight, readOnly, acked, delivered>>

\* An event on vehicle.off or vehicle.charge.stop: callbackVehicleOff()
VehicleOff(topic, lim) ==
  /\ topic \in {"vehicle.off", "vehicle.charge.stop"}
  /\ subs[topic] > 0
  /\ callbackVehicleOff(subs, user_token, lim)
  /\ lastCompletion' = "none"
  /\ lastNotify' = <<>>
  /\ lastPowerEvent' = PowerEventAfter(topic)
  /\ UNCHANGED <<cfgToken, user_token, isActive, singleInFlight, readOnly,
                 acked, delivered>>

StatusCodes == {200, 204, 500}

\* The done and always callbacks of the i-th outstanding bulk request
BulkDone(i, statusCode) ==
  LET request == bulkInFlight[i]
      q == IF statusCode = 200
           THEN removeTelemetry(telemetryToSend, request.count)
           ELSE telemetryToSend
  IN  /\ telemetryToSend' = q
      /\ acked' = IF statusCode = 200
                  THEN (acked \cup SeqsOf(TlmList(request))) \cap SeqsOf(q)
                  ELSE acked
      /\ delivered' = IF statusCode = 200 /\ delivered # <<>>
                      THEN <<delivered[1] \cup SeqsOf(TlmList(request))>>
                      ELSE delivered
      /\ bulkInFlight' = RemoveAt(bulkInFlight, i)
                           \o processTelemetryQueue(q, user_token)
      /\ lastCompletion' = IF statusCode = 200 THEN "acknowledged"
                           ELSE "failed"
      /\ lastNotify' = <<>>
      /\ UNCHANGED <<cfgToken, user_token, isActive, subs, collectedMetrics,
                     lastSentTelemetry, seq, singleInFlight, readOnly,
                     lastPowerEvent>>

\* BulkFail with the fail callback removing the entries the request carried,
\* as the done callback does
BulkFailRemoving(i) ==
  /\ telemetryToSend' = removeTelemetry(telemetryToSend, bulkInFlight[i].count)
  /\ bulkInFlight' = RemoveAt(bulkInFlight, i)
                       \o processTelemetryQueue(telemetryToSend', user_token)
  /\ lastCompletion' = "failed"
  /\ lastNotify' = <<>>
  /\ UNCHANGED <<cfgToken, user_token, isActive, subs, collectedMetrics,
                 lastSentTelemetry, seq, singleInFlight, readOnly, acked,
                 delivered, lastPowerEvent>>

\* The fail and always callbacks of the i-th outstanding bulk request
BulkFail(i) ==
  /\ bulkInFlight' = RemoveAt(bulkInFlight, i)
                       \o processTelemetryQueue(telemetryToSend, user_token)
  /\ lastCompletion' = "failed"
  /\ lastNotify' = <<>>
  /\ UNCHANGED <<cfgToken, user_token, isActive, subs, queueVars,
                 singleInFlight, readOnly, acked, delivered, lastPowerEvent>>

\* SingleCompleted with an always callback like the one of the bulk requests
SingleCompletedFlushing(i) ==
  /\ singleInFlight' = RemoveAt(singleInFlight, i)
  /\ bulkInFlight' = bulkInFlight
                       \o processTelemetryQueue(telemetryToSend, user_token)
  /\ lastCompletion' = "none"
  /\ lastNotify' = <<>>
  /\ UNCHANGED <<cfgToken, user_token, isActive, subs, queueVars, readOnly,
                 acked, delivered, lastPowerEvent>>

\* The done or fail callback of the i-th outstanding single request
SingleCompleted(i) ==
  /\ singleInFlight' = RemoveAt(singleInFlight, i)
  /\ lastCompletion' = "none"
  /\ lastNotify' = <<>>
  /\ UNCHANGED <<cfgToken, user_token, isActive, subs, queueVars,
                 bulkInFlight, readOnly, acked, delivered, lastPowerEvent>>

(***************************************************************************)
(* The environment.                                                        *)
(***************************************************************************)
progVars == <<user_token, isActive, subs, queueVars, bulkInFlight,
              singleInFlight, lastNotify, acked, delivered,
              lastPowerEvent, lastCompletion, flags, result, vehicleType>>

\* config set usr abrp.user_token <token>
ConfigSet(token) ==
  /\ cfgToken # token
  /\ cfgToken' = token
  /\ UNCHANGED <<progVars, envVars>>

\* m.time.utc gets its first value, or time passes.
ClockAdvance(j) ==
  /\ now < j
  /\ now' = j
  /\ UNCHANGED <<progVars, cfgToken, raw>>

\* The vehicle changes state.
VehicleChange(s) ==
  /\ raw # s
  /\ raw' = s
  /\ UNCHANGED <<progVars, cfgToken, now>>

(***************************************************************************)
(* Specifications.                                                         *)
(***************************************************************************)
Boot ==
  /\ cfgToken \in Tokens \cup {NoToken}
  /\ user_token = cfgToken
  /\ isActive = FALSE
  /\ subs = [t \in Topics |-> 0]
  /\ collectedMetrics = <<>>
  /\ telemetryToSend = <<>>
  /\ lastSentTelemetry = ("utc" :> 0)
  /\ bulkInFlight = <<>>
  /\ singleInFlight = <<>>
  /\ lastNotify = <<>>
  /\ now \in {0, 1}
  /\ raw \in Situations
  /\ vehicleType = Unlisted
  /\ seq = 0
  /\ acked = {}
  /\ lastCompletion = "none"
  /\ subscribedLowFrequency = FALSE
  /\ subscribedHighFrequency = FALSE
  /\ result = [fn |-> "none"]

Init == Boot /\ delivered = <<>> /\ lastPowerEvent = <<>>

\* the bounds of a behaviour of Spec
Lim == [enqueues |-> MaxEnqueues, inFlight |-> MaxInFlight]

Next ==
  \/ \E b \in BOOLEAN : Send(b, Lim)
  \/ Onetime
  \/ ResetConfig(Lim)
  \/ Tick(Lim)
  \/ \E topic \in VehicleTopics : VehicleOn(topic, Lim)
  \/ \E topic \in VehicleTopics : VehicleOff(topic, Lim)
  \/ \E i \in 1..Len(bulkInFlight), c \in StatusCodes : BulkDone(i, c)
  \/ \E i \in 1..Len(bulkInFlight) : BulkFail(i)
  \/ \E i \in 1..Len(singleInFlight) : SingleCompleted(i)
  \/ \E token \in Tokens : ConfigSet(token)
  \/ \E j \in 1..MaxInstant : ClockAdvance(j)
  \/ \E s \in Situations : VehicleChange(s)

Spec == Init /\ [][Next]_vars

(***************************************************************************)
(* The bulk sender with a deep queue: the token is configured, the vehicle *)
(* is driving and the clock stands on a transmit instant, so that the      *)
(* queue grows past one batch of BULK_LIMIT snapshots.                     *)
(***************************************************************************)
InitBulk ==
  /\ Init
  /\ cfgToken \in Tokens
  /\ now = 1
  /\ raw = Driving(5000)

\* the bounds of a behaviour of SpecBulk
LimBulk == [enqueues |-> MaxBulkEnqueues, inFlight |-> MaxBulkInFlight]

NextBulk ==
  \/ \E b \in BOOLEAN : Send(b, LimBulk)
  \/ Tick(LimBulk)
  \/ \E topic \in VehicleTopics : VehicleOn(topic, LimBulk)
  \/ \E topic \in VehicleTopics : VehicleOff(topic, LimBulk)
  \/ \E i \in 1..Len(bulkInFlight), c \in StatusCodes : BulkDone(i, c)
  \/ \E i \in 1..Len(bulkInFlight) : BulkFail(i)

SpecBulk == InitBulk /\ [][NextBulk]_vars

(***************************************************************************)
(* The queue while the endpoint cannot be reached: as SpecBulk, but every  *)
(* bulk request fails, is refused or stays outstanding.                    *)
(***************************************************************************)
\* the bounds of a behaviour of SpecOverflow
LimOverflow == [enqueues |-> MaxOverflowEnqueues, inFlight |-> MaxBulkInFlight]

NextOverflow ==
  \/ \E b \in BOOLEAN : Send(b, LimOverflow)
  \/ Tick(LimOverflow)
  \/ \E topic \in VehicleTopics : VehicleOn(topic, LimOverflow)
  \/ \E topic \in VehicleTopics : VehicleOff(topic, LimOverflow)
  \/ \E i \in 1..Len(bulkInFlight), c \in StatusCodes \ {200} : BulkDone(i, c)
  \/ \E i \in 1..Len(bulkInFlight) : BulkFail(i)

SpecOverflow == InitBulk /\ [][NextOverflow]_vars

(***************************************************************************)
(* The lifecycle of the agent, for each vehicle state and clock value the  *)
(* plugin may be loaded in: the commands, the subscribed handlers, the     *)
(* completion callbacks and the configuration of the token, while the      *)
(* vehicle and the clock stay as they are.                                 *)
(***************************************************************************)
NextLifecycle ==
  \/ \E b \in BOOLEAN : Send(b, Lim)
  \/ Onetime
  \/ ResetConfig(Lim)
  \/ Tick(Lim)
  \/ \E topic \in VehicleTopics : VehicleOn(topic, Lim)
  \/ \E topic \in VehicleTopics : VehicleOff(topic, Lim)
  \/ \E i \in 1..Len(bulkInFlight), c \in StatusCodes : BulkDone(i, c)
  \/ \E i \in 1..Len(bulkInFlight) : BulkFail(i)
  \/ \E i \in 1..Len(singleInFlight) : SingleCompleted(i)
  \/ \E token \in Tokens : ConfigSet(token)

SpecLifecycle == Init /\ [][NextLifecycle]_vars

(***************************************************************************)
(* Shared vocabulary of the properties.                                    *)
(***************************************************************************)
\* a step in which a bulk request completes without acknowledgement: its fail
\* callback runs, or its done callback with a status other than 200
FailedFlush ==
  \/ \E i \in 1..Len(bulkInFlight) : BulkFail(i)
  \/ \E i \in 1..Len(bulkInFlight), c \in StatusCodes \ {200} : BulkDone(i, c)

\* a step that enqueues a snapshot
Enqueues == seq' = seq + 1

(***************************************************************************)
(* C1: at most one bulk request is outstanding at any time; a flush        *)
(* trigger that arrives while one is outstanding issues no new request.    *)
(* The plugin keeps no in-flight flag: the property is violated.           *)
(***************************************************************************)
C1_AtMostOneBulkInFlight == Len(bulkInFlight) <= 1

(***************************************************************************)
(* C2: an entry leaves the queue only if it was in the tlm_list of a bulk  *)
(* request that was acknowledged (status 200).  Violated: two outstanding  *)
(* requests that carry the same entries each remove their count.           *)
(***************************************************************************)
C2_RemovedOnlyIfAcked ==
  [][\A j \in 1..Len(telemetryToSend) :
       telemetryToSend[j].seq \notin SeqsOf(telemetryToSend')
         => \/ telemetryToSend[j].seq \in acked
            \/ \E i \in 1..Len(bulkInFlight) :
                 /\ telemetryToSend[j].seq \in SeqsOf(TlmList(bulkInFlight[i]))
                 /\ BulkDone(i, 200)]_vars

(***************************************************************************)
(* C3: the queue never holds more than N = QueueCapacity snapshots, also   *)
(* when every flush fails or never completes.  Violated: queueTelemetry    *)
(* pushes without looking at the length.                                   *)
(***************************************************************************)
C3_QueueWithinCapacity == Len(telemetryToSend) <= QueueCapacity

(***************************************************************************)
(* C4: an enqueue on a queue that holds N = QueueCapacity snapshots evicts *)
(* exactly the oldest one: afterwards the queue is the former queue        *)
(* without its head, followed by the new snapshot.  Violated: nothing is   *)
(* evicted (and nothing counts evictions).                                 *)
(***************************************************************************)
C4_OverflowDropsOldest ==
  [][Enqueues /\ Len(telemetryToSend) = QueueCapacity
       => /\ Len(telemetryToSend') = QueueCapacity
          /\ SubSeq(telemetryToSend', 1, QueueCapacity - 1)
               = Tail(telemetryToSend)
          /\ telemetryToSend'[QueueCapacity].seq = seq']_vars

(***************************************************************************)
(* C5: a bulk request that completes without acknowledgement leaves the    *)
(* queue as it was, entry for entry, and the queue never holds the same    *)
(* snapshot twice.                                                         *)
(***************************************************************************)
C5_FailedFlushKeepsQueue ==
  /\ [][FailedFlush => telemetryToSend' = telemetryToSend]_vars
  /\ [](Cardinality(SeqsOf(telemetryToSend)) = Len(telemetryToSend))

\* a failed completion has run and left snapshots in the queue
C5_Witness ==
  /\ lastCompletion = "failed"
  /\ Len(telemetryToSend) = 2

(***************************************************************************)
(* C6: the callbacks of a bulk request that failed issue no new request;   *)
(* the retry waits for the next scheduled trigger.  Violated: the always   *)
(* callback calls processTelemetryQueue, which sends again at once.        *)
(***************************************************************************)
C6_NoRetryBeforeNextTrigger ==
  [][FailedFlush => Len(bulkInFlight') < Len(bulkInFlight)]_vars

(***************************************************************************)
(* C7: on a tick with a valid clock whose snapshot has is_charging true    *)
(* while the last queued snapshot has is_charging false and the same soc,  *)
(* the snapshot of that tick is sent: the tick issues a bulk request whose *)
(* tlm_list holds it.  Violated: the tick only enqueues it, and builds its *)
(* request, if any, before it does.                                        *)
(***************************************************************************)
C7_ChargingFlipSentAtTick ==
  [][/\ Tick(Lim)
     /\ Has(createTelemetry, "utc")
     /\ Truthy(createTelemetry, "is_charging")
     /\ Has(lastSentTelemetry, "is_charging")
     /\ ~lastSentTelemetry["is_charging"]
     /\ ~StrictNe(createTelemetry, lastSentTelemetry, "soc")
     => /\ Enqueues
        /\ Len(bulkInFlight') = Len(bulkInFlight) + 1
        /\ seq' \in SeqsOf(TlmList(bulkInFlight'[Len(bulkInFlight')]))]_vars

(***************************************************************************)
(* C8: while the clock is invalid no snapshot is enqueued, so every        *)
(* snapshot in the queue has a utc field.  Violated: queueTelemetryManual  *)
(* enqueues whatever createTelemetry returns.                              *)
(***************************************************************************)
C8_QueuedSnapshotsHaveUtc ==
  \A j \in 1..Len(telemetryToSend) : Has(telemetryToSend[j].tlm, "utc")

(***************************************************************************)
(* C9: every bulk request carries one data element with the user token and *)
(* a tlm_list of the first min(BULK_LIMIT, length) entries of the queue as *)
(* it is when the request is built, in queue order, and building it        *)
(* removes nothing: a tick builds it from the queue before its own         *)
(* enqueue, vehicle off and the completion callbacks from the queue they   *)
(* leave behind; only an acknowledged completion shortens the queue.       *)
(***************************************************************************)
\* the request sendBulkTelemetry has to issue when the queue is q
C9_RequestFor(q) ==
  [post |-> [data |-> << [token |-> user_token,
                          tlm_list |-> SubSeq(q, 1, Min(Len(q), BULK_LIMIT))] >>],
   count |-> Min(Len(q), BULK_LIMIT)]

\* the request issued last
C9_Newest == bulkInFlight'[Len(bulkInFlight')]

C9_WellFormed ==
  \A j \in 1..Len(bulkInFlight) :
    /\ Len(bulkInFlight[j].post.data) = 1
    /\ bulkInFlight[j].post.data[1].token = user_token
    /\ user_token # NoToken
    /\ Len(TlmList(bulkInFlight[j])) \in 1..BULK_LIMIT
    /\ bulkInFlight[j].count = Len(TlmList(bulkInFlight[j]))

C9_BulkRequestIsQueueHead ==
  /\ []C9_WellFormed
  /\ [][/\ (/\ lastCompletion' = "none"
            /\ Len(telemetryToSend) > 0
            /\ Tick(LimBulk)
            /\ Has(createTelemetry, "utc")
            /\ createTelemetry["utc"] % TELEMETRY_TRANSMIT_RATE = 0)
           => /\ Len(bulkInFlight') = Len(bulkInFlight) + 1
              /\ C9_Newest = C9_RequestFor(telemetryToSend)
        /\ (/\ lastCompletion' = "none"
            /\ \/ \E topic \in VehicleTopics : VehicleOff(topic, LimBulk)
               \/ Send(FALSE, LimBulk) /\ isActive)
           => /\ Len(bulkInFlight') = Len(bulkInFlight) + 1
              /\ C9_Newest = C9_RequestFor(telemetryToSend')
        /\ (/\ lastCompletion' # "none"
            /\ \/ \E i \in 1..Len(bulkInFlight) : BulkFail(i)
               \/ \E i \in 1..Len(bulkInFlight), c \in StatusCodes :
                    BulkDone(i, c))
           => IF Len(telemetryToSend') > 0
              THEN /\ Len(bulkInFlight') = Len(bulkInFlight)
                   /\ C9_Newest = C9_RequestFor(telemetryToSend')
              ELSE Len(bulkInFlight') = Len(bulkInFlight) - 1
        /\ ~(/\ lastCompletion' = "acknowledged"
             /\ \E i \in 1..Len(bulkInFlight) : BulkDone(i, 200))
           => /\ Len(telemetryToSend') >= Len(telemetryToSend)
              /\ SubSeq(telemetryToSend', 1, Len(telemetryToSend))
                   = telemetryToSend]_vars

\* a request that carries BULK_LIMIT snapshots is outstanding while the queue
\* holds more
C9_Witness ==
  /\ Len(telemetryToSend) > BULK_LIMIT
  /\ \E j \in 1..Len(bulkInFlight) :
       /\ Len(TlmList(bulkInFlight[j])) = BULK_LIMIT
       /\ TlmList(bulkInFlight[j]) = SubSeq(telemetryToSend, 1, BULK_LIMIT)

(***************************************************************************)
(* C10: send(true) while no user token is configured raises the error      *)
(* notification and starts nothing: the agent stays inactive, nothing is   *)
(* subscribed or enqueued and no request is issued; onetime() with no      *)
(* token configured issues no request.  Violated: the module variable      *)
(* user_token outlives resetConfig(), and the commands go by it.           *)
(***************************************************************************)
C10_NoTokenBlocksStart ==
  [][/\ Send(TRUE, Lim) /\ cfgToken = NoToken
          => /\ lastNotify' = <<TokenNotSet>>
             /\ ~isActive'
             /\ UNCHANGED <<subs, telemetryToSend, bulkInFlight,
                            singleInFlight>>
     /\ Onetime /\ cfgToken = NoToken
          => /\ lastNotify' = <<TokenNotSet>>
             /\ UNCHANGED <<bulkInFlight, singleInFlight>>]_vars

(***************************************************************************)
(* C11: send(true) on an active agent and send(false) on an inactive one   *)
(* change nothing (subscriptions, queue, smoothing window, last-queued     *)
(* snapshot, active flag, outstanding requests) and report only the        *)
(* warning, provided a user token is available; with no token they change  *)
(* nothing either and report the missing-token error instead.  A send(b)   *)
(* that passes validation leaves isActive = b, so a second send(b) is one  *)
(* of these.                                                               *)
(***************************************************************************)
\* what a redundant send() has to leave alone
C11_Frame ==
  <<isActive, subs, collectedMetrics, telemetryToSend, lastSentTelemetry,
    bulkInFlight, singleInFlight>>

C12_Unsubscribed == \A t \in Topics : subs[t] = 0

C12_StopUnsubscribes ==
  /\ [](~isActive => C12_Unsubscribed)
  /\ [][/\ (Send(FALSE, Lim) /\ isActive) => (~isActive' /\ C12_Unsubscribed')
        /\ (~isActive /\ ~isActive')
             => /\ seq' = seq
                /\ Len(telemetryToSend') <= Len(telemetryToSend)]_vars

\* the agent has been stopped: it is inactive with its last snapshot queued
\* and the final request outstanding
C12_Witness ==
  /\ ~isActive
  /\ C12_Unsubscribed
  /\ user_token # NoToken
  /\ Len(telemetryToSend) > 0
  /\ Len(bulkInFlight) = 1

(***************************************************************************)
(* C13: send(false) on an active agent issues exactly one bulk request,    *)
(* and while the agent stays inactive no further bulk request is issued,   *)
(* whatever the outcome of a completion.  Violated: the always callback    *)
(* calls processTelemetryQueue, which sends again while the queue is not   *)
(* empty.                                                                  *)
(***************************************************************************)
C13_OneFinalFlush ==
  [][/\ (Send(FALSE, Lim) /\ isActive)
          => Len(bulkInFlight') = Len(bulkInFlight) + 1
     /\ (~isActive /\ ~isActive')
          => Len(bulkInFlight') <= Len(bulkInFlight)
     /\ (/\ ~isActive
         /\ lastCompletion' # "none"
         /\ \/ \E i \in 1..Len(bulkInFlight) : BulkFail(i)
            \/ \E i \in 1..Len(bulkInFlight), c \in StatusCodes :
                 BulkDone(i, c))
          => Len(bulkInFlight') = Len(bulkInFlight) - 1]_vars

(***************************************************************************)
(* C14: after resetConfig() the agent is inactive, the queue is empty and  *)
(* no user token is left, neither configured nor held by the module, so    *)
(* that validateUsrAbrpConfig() fails until a token is configured.         *)
(* Violated: resetConfig() deletes the configured token only; the module   *)
(* variable user_token and the queue stay.                                 *)
(***************************************************************************)
C14_ResetClears ==
  [][ResetConfig(Lim)
       => /\ ~isActive'
          /\ telemetryToSend' = <<>>
          /\ cfgToken' = NoToken
          /\ user_token' = NoToken]_vars

(***************************************************************************)
(* C15: onetime() and the completion callback of its request leave the     *)
(* queue, the smoothing window, the last-queued snapshot, the active flag, *)
(* the subscriptions and the outstanding bulk requests as they are.        *)
(***************************************************************************)
C15_OnetimeIsIndependent ==
  [][(\/ Onetime
      \/ \E i \in 1..Len(singleInFlight) : SingleCompleted(i))
       => UNCHANGED <<telemetryToSend, collectedMetrics, lastSentTelemetry,
                      seq, isActive, subs, bulkInFlight>>]_vars

\* a one-shot request is outstanding while the agent is running with
\* snapshots queued
C15_Witness ==
  /\ Len(singleInFlight) = 1
  /\ isActive
  /\ Len(telemetryToSend) > 0
  /\ subs["ticker.1"] > 0

(***************************************************************************)
(* The helper functions called on their own, as the unit tests of the      *)
(* plugin and its handlers call them: each call is one step that records   *)
(* in result what was passed and what came back.  The functions keep no    *)
(* state of their own, so one call per behaviour is all there is to see.   *)
(***************************************************************************)
\* a value that may be absent: <<>> or <<v>>
Opt(S) == {<<>>} \cup {<<v>> : v \in S}

\* the snapshot that holds the keys of c whose value is not absent
Snapshot(c) == [k \in {k \in DOMAIN c : Len(c[k]) > 0} |-> c[k][1]]

\* the module as loaded with no token, but for the variables a call reads
\* and the window
Unloaded ==
  /\ cfgToken = NoToken
  /\ user_token = NoToken
  /\ isActive = FALSE
  /\ subs = [t \in Topics |-> 0]
  /\ telemetryToSend = <<>>
  /\ bulkInFlight = <<>>
  /\ singleInFlight = <<>>
  /\ lastNotify = <<>>
  /\ seq = 0
  /\ acked = {}
  /\ delivered = <<>>
  /\ lastPowerEvent = <<>>
  /\ lastCompletion = "none"
  /\ subscribedLowFrequency = FALSE
  /\ subscribedHighFrequency = FALSE

Idle == Unloaded /\ result = [fn |-> "none"]

Quiescent == Idle /\ collectedMetrics = <<>> /\ vehicleType = Unlisted

\* what a call of a helper function leaves alone: everything but result
callFrame ==
  <<cfgToken, user_token, isActive, subs, queueVars, bulkInFlight,
    singleInFlight, lastNotify, acked, delivered, lastPowerEvent,
    lastCompletion, flags, envVars, vehicleType>>

(***************************************************************************)
(* calculateMaxElapsedDuration(telemetry), for each last-queued snapshot.  *)
(* Speeds are in hundredths of a kph: 7000 is the threshold itself.        *)
(***************************************************************************)
BudgetPrevious ==
  {Snapshot(c) : c \in [soc : Opt({50, 51}), is_charging : Opt(BOOLEAN),
                        is_parked : Opt(BOOLEAN), power : Opt({0, 40, 60})]}

BudgetTelemetry ==
  {Snapshot(c) : c \in [soc : Opt({50, 51}), is_charging : Opt(BOOLEAN),
                        is_parked : Opt(BOOLEAN), is_dcfc : Opt(BOOLEAN),
                        speed : Opt({7000, 7001}),
                        power : Opt({0, 40, 60})]}

InitBudget ==
  /\ Quiescent
  /\ now = 0
  /\ raw = Parked(FALSE, "standard", 50, 0)
  /\ lastSentTelemetry \in BudgetPrevious

CallBudget(telemetry) ==
  /\ result.fn = "none"
  /\ result' = [fn |-> "calculateMaxElapsedDuration",
                telemetry |-> telemetry,
                value |-> calculateMaxElapsedDuration(telemetry)]
  /\ UNCHANGED callFrame

NextBudget == \E telemetry \in BudgetTelemetry : CallBudget(telemetry)

SpecBudget == InitBudget /\ [][NextBudget]_vars

(***************************************************************************)
(* C16: the budget is that of the first rule that matches, in the order:   *)
(* significant change -> 0; speed above 70 kph -> 5 s; not parked or DC    *)
(* fast charging -> the stale-connection budget; charging -> 30 min;       *)
(* otherwise 24 h.                                                         *)
(***************************************************************************)
C16_Significant(t) == isSignificantTelemetryChange(t, lastSentTelemetry)
C16_Fast(t) == Has(t, "speed") /\ t["speed"] > 7000
C16_Moving(t) == Falsy(t, "is_parked") \/ Truthy(t, "is_dcfc")

C16_FirstMatch(t) ==
  CASE C16_Significant(t) -> 0
    [] ~C16_Significant(t) /\ C16_Fast(t) -> 5
    [] ~C16_Significant(t) /\ ~C16_Fast(t) /\ C16_Moving(t)
         -> METRIC_POLL_STALE_CONNECTION
    [] ~C16_Significant(t) /\ ~C16_Fast(t) /\ ~C16_Moving(t)
         /\ Truthy(t, "is_charging") -> 30 * 60
    [] OTHER -> 24 * 3600

C16_BudgetIsFirstMatch ==
  result.fn = "calculateMaxElapsedDuration"
    => result.value = C16_FirstMatch(result.telemetry)

\* a snapshot with a significant change and a speed above the threshold got
\* the budget 0
C16_Witness ==
  /\ result.fn = "calculateMaxElapsedDuration"
  /\ C16_Significant(result.telemetry)
  /\ C16_Fast(result.telemetry)
  /\ result.value = 0

(***************************************************************************)
(* isSignificantTelemetryChange(currentTelemetry, previousTelemetry).      *)
(* Powers are in hundredths of a kW: 40 rounds to 0, 60 and 140 to 100.    *)
(***************************************************************************)
ChangeSnapshots ==
  {Snapshot(c) : c \in [soc : Opt({0, 50}), is_charging : Opt(BOOLEAN),
                        is_parked : Opt(BOOLEAN),
                        power : Opt({0, 40, 60, 140}),
                        speed : Opt({5000}), is_dcfc : Opt({TRUE})]}

InitSignificance ==
  /\ Quiescent
  /\ now = 0
  /\ raw = Parked(FALSE, "standard", 50, 0)
  /\ lastSentTelemetry = ("utc" :> 0)

CallSignificant(currentTelemetry, previousTelemetry) ==
  /\ result.fn = "none"
  /\ result' = [fn |-> "isSignificantTelemetryChange",
                currentTelemetry |-> currentTelemetry,
                previousTelemetry |-> previousTelemetry,
                value |-> isSignificantTelemetryChange(currentTelemetry,
                                                       previousTelemetry)]
  /\ UNCHANGED callFrame

\* one call in each behaviour
NextSignificance ==
  /\ result.fn = "none"
  /\ \E currentTelemetry \in ChangeSnapshots,
        previousTelemetry \in ChangeSnapshots :
       CallSignificant(currentTelemetry, previousTelemetry)

SpecSignificance == InitSignificance /\ [][NextSignificance]_vars

(***************************************************************************)
(* C17: isSignificantTelemetryChange(A, A) is false for every snapshot A.  *)
(***************************************************************************)
C17_Irreflexive ==
  (/\ result.fn = "isSignificantTelemetryChange"
   /\ result.currentTelemetry = result.previousTelemetry)
    => result.value = FALSE

\* the function was called on a charging snapshot, without soc and with a
\* power that rounding changes, and on itself
C17_Witness ==
  /\ result.fn = "isSignificantTelemetryChange"
  /\ result.currentTelemetry = result.previousTelemetry
  /\ ~Has(result.currentTelemetry, "soc")
  /\ Truthy(result.currentTelemetry, "is_charging")
  /\ Has(result.currentTelemetry, "power")
  /\ result.currentTelemetry["power"] = 140
  /\ result.value = FALSE

(***************************************************************************)
(* C18: the change is significant exactly when soc, is_charging or         *)
(* is_parked differs (a key set on one side only differs), or the current  *)
(* snapshot is charging and the powers, rounded to whole kW, differ, where *)
(* an absent power and a power of zero stay as they are; no other field    *)
(* counts.                                                                 *)
(***************************************************************************)
\* k is set on one side only, or to different values
C18_Differs(a, b, k) == IF Has(a, k) /\ Has(b, k) THEN a[k] # b[k]
                        ELSE Has(a, k) # Has(b, k)

\* the whole number of kW nearest to p hundredths, in hundredths
C18_Whole(p) ==
  CHOOSE n \in {100 * i : i \in -2..2} :
    \A m \in {100 * i : i \in -2..2} : Abs(p - n) <= Abs(p - m)

C18_RoundedPowerDiffers(a, b) ==
  IF Has(a, "power") /\ Has(b, "power")
  THEN C18_Whole(a["power"]) # C18_Whole(b["power"])
  ELSE Has(a, "power") # Has(b, "power")

C18_SignificantExactly ==
  result.fn = "isSignificantTelemetryChange"
    => result.value =
         (\/ C18_Differs(result.currentTelemetry, result.previousTelemetry,
                         "soc")
          \/ C18_Differs(result.currentTelemetry, result.previousTelemetry,
                         "is_charging")
          \/ C18_Differs(result.currentTelemetry, result.previousTelemetry,
                         "is_parked")
          \/ /\ Truthy(result.currentTelemetry, "is_charging")
             /\ C18_RoundedPowerDiffers(result.currentTelemetry,
                                        result.previousTelemetry))

\* two charging snapshots that differ in power (0.6 and 1.4 kW, both 1 kW
\* rounded), speed and is_dcfc were found not to differ significantly
C18_Witness ==
  /\ result.fn = "isSignificantTelemetryChange"
  /\ Truthy(result.currentTelemetry, "is_charging")
  /\ Has(result.currentTelemetry, "power")
  /\ Has(result.previousTelemetry, "power")
  /\ result.currentTelemetry["power"] = 60
  /\ result.previousTelemetry["power"] = 140
  /\ Has(result.currentTelemetry, "speed")
  /\ ~Has(result.previousTelemetry, "speed")
  /\ Has(result.currentTelemetry, "is_dcfc")
  /\ ~Has(result.previousTelemetry, "is_dcfc")
  /\ result.value = FALSE

(***************************************************************************)
(* medianPowerMetrics(collectedMetrics), for each window of at most        *)
(* MaxWindow readings.  A reading holds a power, or none when v.b.power    *)
(* was stale, and a speed that tells readings of equal power apart.        *)
(***************************************************************************)
MaxWindow == 4

Readings ==
  {Snapshot(c) : c \in [power : Opt({100, 200, 400}), speed : Opt({5000})]}

Windows == UNION {[1..n -> Readings] : n \in 0..MaxWindow}

InitMedian ==
  /\ Idle
  /\ vehicleType = Unlisted
  /\ now = 0
  /\ raw = Parked(FALSE, "standard", 50, 0)
  /\ lastSentTelemetry = ("utc" :> 0)
  /\ collectedMetrics \in Windows

\* array.slice().sort(...) sorts a copy: collectedMetrics is in callFrame.
\* value is <<>> for null, <<m>> for the reading m.
CallMedian ==
  /\ result.fn = "none"
  /\ \E value \in IF medianPowerMetrics(collectedMetrics) = {} THEN {<<>>}
                  ELSE {<<m>> : m \in medianPowerMetrics(collectedMetrics)} :
       result' = [fn |-> "medianPowerMetrics", array |-> collectedMetrics,
                  value |-> value]
  /\ UNCHANGED callFrame

NextMedian == CallMedian

SpecMedian == InitMedian /\ [][NextMedian]_vars

(***************************************************************************)
(* C19: medianPowerMetrics returns nothing for an empty window; otherwise  *)
(* a reading of the window: the one at index floor(n/2) (n odd) or         *)
(* n/2 - 1 (n even), counted from 0, of the window sorted by power         *)
(* ascending, which for a single reading is that reading; and the window   *)
(* is as it was.  A window with a reading that has no power has no sorted  *)
(* order; of it only membership is stated.                                 *)
(***************************************************************************)
\* the arrangements of array in ascending order of power
C19_Sorted(array) ==
  {[i \in 1..Len(array) |-> array[p[i]]] : p \in
     {q \in Permutations(1..Len(array)) :
        \A i \in 1..Len(array) - 1 : array[q[i]]["power"] <= array[q[i + 1]]["power"]}}

\* the index, counted from 0, the claim names
C19_Index(n) == IF n % 2 = 1 THEN n \div 2 ELSE (n \div 2) - 1

C19_MedianSelects ==
  result.fn = "medianPowerMetrics"
    => /\ collectedMetrics = result.array
       /\ (Len(result.array) = 0) = (result.value = <<>>)
       /\ Len(result.array) > 0 =>
            /\ \E j \in 1..Len(result.array) : result.value[1] = result.array[j]
            /\ Len(result.array) = 1 => result.value[1] = result.array[1]
            /\ (\A j \in 1..Len(result.array) : Has(result.array[j], "power"))
                 => \E sorted \in C19_Sorted(result.array) :
                      result.value[1] = sorted[C19_Index(Len(result.array)) + 1]

\* of an unsorted window of four readings with powers 4, 1, 2, 1 kW the
\* function returned the second reading of 1 kW (the lower middle)
C19_Witness ==
  /\ result.fn = "medianPowerMetrics"
  /\ Len(result.array) = 4
  /\ \A j \in 1..4 : Has(result.array[j], "power")
  /\ result.array[1]["power"] = 400
  /\ result.array[2]["power"] = 100
  /\ result.array[3]["power"] = 200
  /\ result.array[4]["power"] = 100
  /\ result.value # <<>>
  /\ result.value[1]["power"] = 100

(***************************************************************************)
(* createTelemetry(), for each vehicle type and each set of raw metrics    *)
(* that have a value.                                                      *)
(***************************************************************************)
SnapshotIds ==
  {"v.b.soc", "xnl.v.b.soc.instrument", "v.b.soh", "xnl.v.b.soh.instrument",
   "v.b.range.est", "xnl.v.b.range.instrument", "v.b.range.ideal",
   "v.e.parktime", "v.e.gear", "v.b.power", "v.p.speed", "v.c.charging",
   "v.c.mode"}

\* a value of the raw metric id
SampleValue(id) ==
  CASE id \in {"v.b.soc", "xnl.v.b.soc.instrument"} -> 50
    [] id \in {"v.b.soh", "xnl.v.b.soh.instrument"} -> 95
    [] id = "v.b.range.est" -> 110
    [] id = "xnl.v.b.range.instrument" -> 100
    [] id = "v.b.range.ideal" -> 120
    [] id = "v.e.parktime" -> 30
    [] id = "v.e.gear" -> 0
    [] id = "v.b.power" -> 0
    [] id = "v.p.speed" -> 0
    [] id = "v.c.charging" -> FALSE
    [] id = "v.c.mode" -> "standard"

InitSnapshot ==
  /\ Idle
  /\ collectedMetrics = <<>>
  /\ lastSentTelemetry = ("utc" :> 0)
  /\ vehicleType \in VehicleTypes
  /\ now \in {0, 1}
  /\ raw \in {[id \in S |-> SampleValue(id)] : S \in SUBSET SnapshotIds}

CallCreateTelemetry ==
  /\ result.fn = "none"
  /\ result' = [fn |-> "createTelemetry", value |-> createTelemetry]
  /\ UNCHANGED callFrame

NextSnapshot == CallCreateTelemetry

SpecSnapshot == InitSnapshot /\ [][NextSnapshot]_vars

(***************************************************************************)
(* C20: the snapshot createTelemetry returns holds the key of a catalog    *)
(* entry if and only if the entry's requiredMetrics is defined, is not     *)
(* empty and names only raw metrics that have a fresh value; it holds no   *)
(* other key, so an unsupported field is absent, not null.                 *)
(***************************************************************************)
C20_StrictAnd ==
  result.fn = "createTelemetry"
    => /\ DOMAIN result.value \subseteq Keys
       /\ \A key \in Keys :
            Has(result.value, key)
              <=> /\ Len(requiredMetrics(key)) = 1
                  /\ \E id \in SnapshotIds \cup {"m.time.utc"} :
                       id \in requiredMetrics(key)[1]
                  /\ \A id \in SnapshotIds \cup {"m.time.utc"} :
                       id \in requiredMetrics(key)[1]
                         => \/ id = "m.time.utc" /\ utcFresh
                            \/ Has(raw, id)

\* on a Nissan Leaf with the instrument range fresh and the ideal range
\* stale, the snapshot has soc (its one metric is fresh) and has neither
\* est_battery_range (one of two stale), capacity (no requiredMetrics),
\* hvac_power (empty requiredMetrics) nor utc (no time yet)
C20_Witness ==
  /\ result.fn = "createTelemetry"
  /\ vehicleType = "NL"
  /\ Has(raw, "xnl.v.b.range.instrument")
  /\ ~Has(raw, "v.b.range.ideal")
  /\ Has(raw, "v.b.range.est")
  /\ Has(raw, "xnl.v.b.soc.instrument")
  /\ now = 0
  /\ Has(result.value, "soc")
  /\ ~Has(result.value, "est_battery_range")
  /\ ~Has(result.value, "capacity")
  /\ ~Has(result.value, "hvac_power")
  /\ ~Has(result.value, "utc")

(***************************************************************************)
(* overrideMetricMap(), run up to MaxOverrides times while v.type stays    *)
(* the same, on metricMap as declared or as earlier runs for other vehicle *)
(* types left it.  result.map is the catalog.                              *)
(***************************************************************************)
MaxOverrides == 2

Catalogs ==
  {overrideMetricMap(t3, overrideMetricMap(t2,
                            overrideMetricMap(t1, metricMap))) :
     t1 \in VehicleTypes, t2 \in VehicleTypes, t3 \in VehicleTypes}

InitOverride ==
  /\ Unloaded
  /\ collectedMetrics = <<>>
  /\ lastSentTelemetry = ("utc" :> 0)
  /\ now = 0
  /\ raw = Parked(FALSE, "standard", 50, 0)
  /\ vehicleType \in VehicleTypes
  /\ \E map \in Catalogs :
       result = [fn |-> "overrideMetricMap", calls |-> 0, initial |-> map,
                 before |-> map, map |-> map]

CallOverride ==
  /\ result.calls < MaxOverrides
  /\ result' = [result EXCEPT
                  !.calls = @ + 1,
                  !.before = result.map,
                  !.map = overrideMetricMap(vehicleType, result.map)]
  /\ UNCHANGED callFrame

NextOverride == CallOverride

SpecOverride == InitOverride /\ [][NextOverride]_vars

(***************************************************************************)
(* C21: for each vehicle type, a second run of overrideMetricMap leaves    *)
(* every entry (its requiredMetrics and its metric) as the first run left  *)
(* it, and with a type that has no case every run leaves every entry as    *)
(* it was.                                                                 *)
(***************************************************************************)
C21_OverrideIdempotent ==
  /\ result.calls >= 2 => result.map = result.before
  /\ (result.calls >= 1 /\ vehicleType = Unlisted)
       => result.map = result.initial

\* the override ran twice for a Nissan Leaf on the declared catalog, which
\* it changed
C21_Witness ==
  /\ result.calls = 2
  /\ vehicleType = "NL"
  /\ result.initial = metricMap
  /\ result.map # metricMap
  /\ result.map["est_battery_range"].requiredMetrics
       = <<{"xnl.v.b.range.instrument", "v.b.range.ideal"}>>
  /\ result.map = result.before

(***************************************************************************)
(* Delivery when the endpoint answers every bulk request with status 200:  *)
(* the token is configured, the clock stands on a transmit instant, so     *)
(* that every tick is a flush trigger, and the ticker and the completion   *)
(* callbacks are delivered fairly.                                         *)
(***************************************************************************)
InitLive ==
  /\ Boot
  /\ cfgToken \in Tokens
  /\ now = 1
  /\ delivered = << {} >>
  /\ lastPowerEvent = <<>>

Acknowledged == \E i \in 1..Len(bulkInFlight) : BulkDone(i, 200)

NextLive ==
  \/ \E b \in BOOLEAN : Send(b, Lim)
  \/ Tick(Lim)
  \/ \E topic \in VehicleTopics : VehicleOn(topic, Lim)
  \/ \E topic \in VehicleTopics : VehicleOff(topic, Lim)
  \/ Acknowledged

SpecLive ==
  /\ InitLive
  /\ [][NextLive]_vars
  /\ WF_vars(Tick(Lim))
  /\ WF_vars(Acknowledged)

(***************************************************************************)
(* C22: every snapshot in the queue is eventually out of the queue and     *)
(* was carried by a bulk request answered with status 200.  Violated: of   *)
(* two outstanding requests that carry the same snapshot the second,       *)
(* acknowledged after a later snapshot was enqueued, removes that one,     *)
(* which no request ever carried or will carry.                            *)
(***************************************************************************)
C22_EveryEnqueuedDelivered ==
  \A s \in 1..MaxEnqueues :
    (s \in SeqsOf(telemetryToSend))
      ~> (s \in delivered[1] /\ s \notin SeqsOf(telemetryToSend))

(***************************************************************************)
(* C23: a bulk request answered with a status from 200 to 299 is           *)
(* acknowledged: the entries it carried are out of the queue.  Violated:   *)
(* the done callback tests statusCode === 200, and a request answered 204  *)
(* leaves its entries queued and is sent again.                            *)
(***************************************************************************)
C23_Any2xxAcknowledged ==
  [][\A i \in 1..Len(bulkInFlight) :
       \A statusCode \in StatusCodes \cap 200..299 :
         BulkDone(i, statusCode)
           => SeqsOf(TlmList(bulkInFlight[i])) \cap SeqsOf(telemetryToSend')
                = {}]_vars

(***************************************************************************)
(* C24: the success callback of a bulk request takes out of the queue the  *)
(* entries the request carried and no other: what was queued behind them   *)
(* and what was enqueued since stays, in order.  Violated when two         *)
(* requests are outstanding with the same entries (C1): the second         *)
(* acknowledgement removes entries that were not in its batch.             *)
(***************************************************************************)
\* the queue q without the entries that request carried
C24_Without(q, request) ==
  LET kept(e) == e.seq \notin SeqsOf(TlmList(request))
  IN  SelectSeq(q, kept)

C24_AckRemovesOnlyItsBatch ==
  [][\A i \in 1..Len(bulkInFlight) :
       (lastCompletion' = "acknowledged" /\ BulkDone(i, 200))
         => telemetryToSend' = C24_Without(telemetryToSend, bulkInFlight[i])]_vars

(***************************************************************************)
(* removeTelemetry(count), for each queue of at most MaxQueue entries and  *)
(* each count up to two more than that.                                    *)
(***************************************************************************)
MaxQueue == 4

\* the queues of n entries, in the order they were enqueued
Queues(n) ==
  {[j \in 1..n |-> [seq |-> j, tlm |-> w[j]]] :
     w \in [1..n -> {("utc" :> Epoch + 60), ("utc" :> Epoch + 62)}]}

InitRemove ==
  /\ cfgToken = NoToken
  /\ user_token = NoToken
  /\ isActive = FALSE
  /\ subs = [t \in Topics |-> 0]
  /\ collectedMetrics = <<>>
  /\ seq \in 0..MaxQueue
  /\ telemetryToSend \in Queues(seq)
  /\ lastSentTelemetry =
       IF seq = 0 THEN ("utc" :> 0) ELSE telemetryToSend[seq].tlm
  /\ bulkInFlight = <<>>
  /\ singleInFlight = <<>>
  /\ lastNotify = <<>>
  /\ now = 0
  /\ raw = Parked(FALSE, "standard", 50, 0)
  /\ vehicleType = Unlisted
  /\ acked = {}
  /\ delivered = <<>>
  /\ lastPowerEvent = <<>>
  /\ lastCompletion = "none"
  /\ subscribedLowFrequency = FALSE
  /\ subscribedHighFrequency = FALSE
  /\ result = [fn |-> "none"]

CallRemove(count) ==
  /\ result.fn = "none"
  /\ telemetryToSend' = removeTelemetry(telemetryToSend, count)
  /\ result' = [fn |-> "removeTelemetry", count |-> count,
                before |-> telemetryToSend]
  /\ UNCHANGED <<cfgToken, user_token, isActive, subs, collectedMetrics,
                 lastSentTelemetry, seq, bulkInFlight, singleInFlight,
                 lastNotify, acked, delivered, lastPowerEvent,
                 lastCompletion, flags, envVars, vehicleType>>

NextRemove == \E count \in 0..MaxQueue + 2 : CallRemove(count)

SpecRemove == InitRemove /\ [][NextRemove]_vars

(***************************************************************************)
(* C25: after removeTelemetry(k) on a queue q of n entries the queue is q  *)
(* without its first k entries, the others in their order, when k <= n,    *)
(* and is empty when k > n.                                                *)
(***************************************************************************)
C25_RemovesOldest ==
  result.fn = "removeTelemetry"
    => IF result.count <= Len(result.before)
       THEN /\ Len(telemetryToSend) = Len(result.before) - result.count
            /\ \A j \in 1..Len(telemetryToSend) :
                 telemetryToSend[j] = result.before[j + result.count]
       ELSE telemetryToSend = <<>>

\* two of four entries were removed: the third and the fourth are left
C25_Witness ==
  /\ result.fn = "removeTelemetry"
  /\ result.count = 2
  /\ Len(result.before) = 4
  /\ SeqsOf(telemetryToSend) = {3, 4}
  /\ telemetryToSend[1].seq = 3

\* a count larger than the queue emptied it
C25_WitnessBeyond ==
  /\ result.fn = "removeTelemetry"
  /\ result.count > Len(result.before)
  /\ Len(result.before) > 0
  /\ telemetryToSend = <<>>

(***************************************************************************)
(* C30: lastSentTelemetry is the baseline {utc: 0} when the module is      *)
(* loaded and right after every step that stops an active agent            *)
(* (send(0), resetConfig()).  Violated: stopping enqueues a final snapshot *)
(* and leaves lastSentTelemetry set to it.                                 *)
(***************************************************************************)
C30_BaselineAfterStop ==
  /\ lastSentTelemetry = ("utc" :> 0)
  /\ [][(isActive /\ ~isActive') => lastSentTelemetry' = ("utc" :> 0)]_vars

(***************************************************************************)
(* The sampler: the agent is started and stopped, the ticker runs, the     *)
(* clock advances over MaxSamplerInstant instants and the vehicle changes  *)
(* state, also to states in which v.e.parktime or v.b.power has no fresh   *)
(* value.                                                                  *)
(***************************************************************************)
MaxSamplerInstant == 4

SamplerSituations ==
  Situations \cup {Stale(Driving(5000), "v.e.parktime"),
                   Stale(Driving(5000), "v.b.power")}

InitSampler == Init /\ cfgToken \in Tokens

\* the bounds of a behaviour of SpecSampler
LimSampler == [enqueues |-> MaxEnqueues, inFlight |-> MaxBulkInFlight]

NextSampler ==
  \/ \E b \in BOOLEAN : Send(b, LimSampler)
  \/ Tick(LimSampler)
  \/ \E i \in 1..Len(bulkInFlight), c \in StatusCodes : BulkDone(i, c)
  \/ \E j \in 1..MaxSamplerInstant : ClockAdvance(j)
  \/ \E s \in SamplerSituations : VehicleChange(s)

SpecSampler == InitSampler /\ [][NextSampler]_vars

(***************************************************************************)
(* C26: on a tick whose snapshot is not parked, has a speed of at most     *)
(* 70 kph and does not differ significantly from the last queued one, the  *)
(* snapshot is enqueued if and only if at least the stale-connection       *)
(* budget (100 s) has passed since the last queued one.  Violated: the     *)
(* tick of a vehicle that is not parked enqueues after 5 s.                *)
(***************************************************************************)
C26_TickAppliesStaleBudget ==
  [][(/\ subs["ticker.1"] > 0
      /\ Has(createTelemetry, "is_parked")
      /\ ~createTelemetry["is_parked"]
      /\ Has(createTelemetry, "speed")
      /\ createTelemetry["speed"] <= MIN_CALIBRATION_SPEED * 100
      /\ ~isSignificantTelemetryChange(createTelemetry, lastSentTelemetry)
      /\ Tick(LimSampler))
       => (Enqueues <=> ElapsedAtLeast(createTelemetry, lastSentTelemetry,
                                        METRIC_POLL_STALE_CONNECTION))]_vars

(***************************************************************************)
(* C27: a tick whose snapshot has no is_parked enqueues nothing.           *)
(* Violated: !undefined is true, the tick takes the branch of a vehicle    *)
(* that is not parked and enqueues once 5 s have passed.                   *)
(***************************************************************************)
C27_NoParkedFlagNoEnqueue ==
  [][(/\ subs["ticker.1"] > 0
      /\ ~Has(createTelemetry, "is_parked")
      /\ Tick(LimSampler))
       => ~Enqueues]_vars

(***************************************************************************)
(* The smoothing window: the sampler while the vehicle drives, with and    *)
(* without a fresh v.b.power, or is parked.                                *)
(***************************************************************************)
WindowSituations ==
  {Driving(5000), Stale(Driving(5000), "v.b.power"),
   Parked(FALSE, "standard", 50, 0)}

NextWindow ==
  \/ \E b \in BOOLEAN : Send(b, LimSampler)
  \/ Tick(LimSampler)
  \/ Acknowledged
  \/ \E j \in 1..MaxInstant : ClockAdvance(j)
  \/ \E s \in WindowSituations : VehicleChange(s)

SpecWindow == InitSampler /\ [][NextWindow]_vars

C29_Consumed ==
  /\ Enqueues
  /\ collectedMetrics # <<>>
  /\ \E m \in medianPowerMetrics(collectedMetrics) :
       lastSentTelemetry' = Smoothed(lastSentTelemetry', m)

C29_ClearedExactlyWhenConsumed ==
  [][(collectedMetrics # <<>> /\ collectedMetrics' = <<>>) <=> C29_Consumed]_vars

C29_WindowNeverFilled == collectedMetrics = <<>>

(***************************************************************************)
(* C31.  The periodic sampler is subscribed at most once.                  *)
(***************************************************************************)
\* C31: in every reachable state at most one subscription of
\* queueTelemetryIfNecessary to ticker.1 exists, whatever send(true),
\* vehicle.on, vehicle.charge.start, vehicle.off and vehicle.charge.stop
\* events came before, so that one tick runs the sampler at most once.
C31_SamplerSubscribedAtMostOnce == subs["ticker.1"] <= 1

(***************************************************************************)
(* The lifecycle of the agent while the vehicle stays on: the token is     *)
(* configured, v.e.on stays true, and the vehicle.on and vehicle.off       *)
(* events the handlers see are remembered.                                 *)
(***************************************************************************)
InitPower ==
  /\ Boot
  /\ cfgToken \in Tokens
  /\ raw = Driving(5000)
  /\ delivered = <<>>
  /\ lastPowerEvent = <<"none">>

\* snapshots enqueued in one behaviour of SpecPower: the start, a
\* vehicle.on, a vehicle.charge.start and a vehicle.charge.stop
MaxPowerEnqueues == 4

\* the bounds of a behaviour of SpecPower
LimPower == [enqueues |-> MaxPowerEnqueues, inFlight |-> MaxBulkInFlight]

NextPower ==
  \/ \E b \in BOOLEAN : Send(b, LimPower)
  \/ Tick(LimPower)
  \/ \E topic \in VehicleTopics : VehicleOn(topic, LimPower)
  \/ \E topic \in VehicleTopics : VehicleOff(topic, LimPower)
  \/ Acknowledged

SpecPower == InitPower /\ [][NextPower]_vars

(***************************************************************************)
(* C32.  Sampling stays subscribed while the agent is active and the       *)
(* vehicle is on.                                                          *)
(***************************************************************************)
\* C32: in every reachable state where isActive is true and the last power
\* event was vehicle.on, with no vehicle.off since, queueTelemetryIfNecessary
\* is subscribed to ticker.1; a vehicle.charge.start followed by a
\* vehicle.charge.stop while the vehicle remains on does not end it.
C32_SamplingWhileOn ==
  (isActive /\ lastPowerEvent = <<"vehicle.on">>) => subs["ticker.1"] > 0

(***************************************************************************)
(* The sampler of a started agent while the vehicle is driving: the token  *)
(* is configured, the agent is started and never stopped, no vehicle.off   *)
(* or vehicle.charge.stop event arrives, every bulk request is answered    *)
(* with status 200, and the clock, which may have no value yet when the    *)
(* plugin is loaded, advances.  The ticker, the clock and the completion   *)
(* callbacks are fair.                                                     *)
(***************************************************************************)
\* snapshots enqueued in one behaviour of SpecResume
MaxResumeEnqueues == 3

InitResume ==
  /\ Init
  /\ cfgToken \in Tokens
  /\ raw = Driving(5000)

\* the bounds of a behaviour of SpecResume
LimResume == [enqueues |-> MaxResumeEnqueues, inFlight |-> MaxBulkInFlight]

\* time passes
TimePasses == \E j \in 1..MaxInstant : ClockAdvance(j)

NextResume ==
  \/ Send(TRUE, LimResume)
  \/ Tick(LimResume)
  \/ \E topic \in VehicleTopics : VehicleOn(topic, LimResume)
  \/ Acknowledged
  \/ TimePasses

SpecResume ==
  /\ InitResume
  /\ [][NextResume]_vars
  /\ WF_vars(Tick(LimResume))
  /\ WF_vars(Acknowledged)
  /\ WF_vars(TimePasses)

(***************************************************************************)
(* C33.  Sampling resumes once the clock becomes valid.                    *)
(***************************************************************************)
\* the agent is active, the vehicle is on and not parked, the sampler is
\* subscribed, utc is valid and has not reached the last instant of the
\* model, and n snapshots were enqueued so far
C33_Sampling(n) ==
  /\ isActive
  /\ subs["ticker.1"] > 0
  /\ raw["v.e.on"]
  /\ Falsy(createTelemetry, "is_parked")
  /\ utcFresh
  /\ now < MaxInstant
  /\ seq = n

\* C33: if the agent is active, the vehicle is on and not parked, the
\* sampler is subscribed and ticks keep arriving with a valid, advancing
\* utc, then a snapshot is eventually enqueued, even when an earlier
\* vehicle-on event enqueued a snapshot while utc was absent.
C33_SamplingResumes ==
  \A n \in 0..MaxResumeEnqueues - 1 : C33_Sampling(n) ~> (seq > n)

(***************************************************************************)
(* C34.  No duplicate delivery without failures.                           *)
(***************************************************************************)
\* C34: when every bulk request is answered with status 200, each enqueued
\* snapshot is in the tlm_list of one bulk request only: no two outstanding
\* requests carry the same snapshot, and no outstanding request carries a
\* snapshot that an acknowledged request carried.
C34_NoDuplicateDelivery ==
  /\ \A i, j \in 1..Len(bulkInFlight) :
       i # j => SeqsOf(TlmList(bulkInFlight[i]))
                  \cap SeqsOf(TlmList(bulkInFlight[j])) = {}
  /\ \A i \in 1..Len(bulkInFlight) :
       SeqsOf(TlmList(bulkInFlight[i])) \cap delivered[1] = {}

(***************************************************************************)
(* C35.  A request never goes out without a token.                         *)
(***************************************************************************)
\* C35: in every reachable state every bulk request and every single-item
\* request issued carries a non-empty user token, the queue is non-empty
\* only if the agent holds a non-empty token (the module variable
\* user_token), and isActive implies that it holds one.
C35_NoRequestWithoutToken ==
  /\ \A i \in 1..Len(bulkInFlight) :
       bulkInFlight[i].post.data[1].token # NoToken
  /\ \A i \in 1..Len(singleInFlight) : singleInFlight[i].token # NoToken
  /\ telemetryToSend # <<>> => user_token # NoToken
  /\ isActive => user_token # NoToken

\* the agent is running with a snapshot queued, a bulk request and a
\* single-item request outstanding, after the configured token was deleted
C35_Witness ==
  /\ isActive
  /\ telemetryToSend # <<>>
  /\ bulkInFlight # <<>>
  /\ singleInFlight # <<>>
  /\ cfgToken = NoToken

(***************************************************************************)
(* overrideMetricMap() when the vehicle type changes: the module is loaded *)
(* while v.type has some value, which runs the override pass once, and     *)
(* each vehicle.type.set event runs it again on the catalog as the passes  *)
(* before left it.                                                         *)
(***************************************************************************)
\* vehicle.type.set events in one behaviour of SpecTypeSet
MaxTypeSets == 2

InitTypeSet ==
  /\ Unloaded
  /\ collectedMetrics = <<>>
  /\ lastSentTelemetry = ("utc" :> 0)
  /\ now = 0
  /\ raw = Parked(FALSE, "standard", 50, 0)
  /\ vehicleType \in VehicleTypes
  /\ result = [fn |-> "overrideMetricMap", calls |-> 1,
               types |-> <<vehicleType>>,
               map |-> overrideMetricMap(vehicleType, metricMap)]

\* An event on vehicle.type.set, v.type being type: overrideMetricMap()
VehicleTypeSet(type) ==
  /\ result.calls < 1 + MaxTypeSets
  /\ vehicleType' = type
  /\ result' = [result EXCEPT
                  !.calls = @ + 1,
                  !.types = Append(@, type),
                  !.map = overrideMetricMap(type, result.map)]
  /\ UNCHANGED <<cfgToken, user_token, isActive, subs, queueVars,
                 bulkInFlight, singleInFlight, lastNotify, acked, delivered,
                 lastPowerEvent, lastCompletion, flags, envVars>>

NextTypeSet == \E type \in VehicleTypes : VehicleTypeSet(type)

SpecTypeSet == InitTypeSet /\ [][NextTypeSet]_vars

(***************************************************************************)
(* C36.  The catalog depends only on the current vehicle type.             *)
(***************************************************************************)
\* C36: after the override pass ran for a type t1 and then, following a
\* vehicle-type change, for a type t2, the catalog is the declared catalog
\* with the override of t2 alone: no entry keeps the requiredMetrics or the
\* derivation that the pass for t1 gave it.
C36_CatalogOfCurrentType ==
  result.calls >= 2 => result.map = overrideMetricMap(vehicleType, metricMap)

(***************************************************************************)
(* Release 2.1.0 (lines 1-662): the subscription state machine and the     *)
(* sender.  A low-frequency pass, sendTelemetryIfNecessary, runs on        *)
(* ticker.10, vehicle.on and vehicle.off and sends one snapshot in one     *)
(* request; while the vehicle is not parked, collectHighFrequencyMetrics   *)
(* runs on ticker.1.  The token is read from the configuration at each     *)
(* use.  createTelemetry, medianPowerMetrics, round and                    *)
(* isSignificantTelemetryChange are the same in both releases.             *)
(***************************************************************************)
\* readings of power and speed held in collectedMetrics in one behaviour of
\* SpecRelease210
MaxCollected == 2

maxCalibrationTimeout == 5
maxChargingTimeout == 30 * 60
staleConnectionTimeout == 3 * 60
staleConnectionTimeoutBuffer == 20

LowFrequencyTopics == {"ticker.10", "vehicle.on", "vehicle.off"}

\* the topics of PubSub.subscribe in release 2.1.0
Topics210 == LowFrequencyTopics \cup {"ticker.1"}

\* maxElapsedDuration of sendTelemetryIfNecessary for currentTelemetry
maxElapsedDuration(currentTelemetry) ==
  IF isSignificantTelemetryChange(currentTelemetry, lastSentTelemetry) THEN 0
  ELSE IF Has(currentTelemetry, "speed")
          /\ currentTelemetry["speed"] > MIN_CALIBRATION_SPEED * 100
    THEN maxCalibrationTimeout
  ELSE IF Falsy(currentTelemetry, "is_parked")
          \/ Truthy(currentTelemetry, "is_dcfc")
    THEN staleConnectionTimeout - staleConnectionTimeoutBuffer
  ELSE IF Truthy(currentTelemetry, "is_charging") THEN maxChargingTimeout
  ELSE PARKED_POLL_RATE

\* sendTelemetry(telemetry) of release 2.1.0: no request without a token
sendTelemetry(telemetry) ==
  IF cfgToken = NoToken
  THEN UNCHANGED singleInFlight
  ELSE /\ Len(singleInFlight) < MaxSingleInFlight
       /\ singleInFlight' = Append(singleInFlight,
                                   [token |-> cfgToken, tlm |-> telemetry])

\* subscribeHighFrequency() when the subscriptions are sb
subscribeHighFrequency(sb) ==
  /\ subs' = IF ~subscribedHighFrequency
             THEN [sb EXCEPT !["ticker.1"] = Min(@ + 1, MaxSubs)]
             ELSE sb
  /\ subscribedHighFrequency' = TRUE

\* unsubscribeHighFrequency() when the subscriptions are sb
unsubscribeHighFrequency(sb) ==
  /\ subs' = IF subscribedHighFrequency
             THEN [sb EXCEPT !["ticker.1"] = 0]
             ELSE sb
  /\ subscribedHighFrequency' = FALSE

subscribeLowFrequency ==
  /\ subs' = IF ~subscribedLowFrequency
             THEN [t \in Topics210 |->
                     IF t \in LowFrequencyTopics
                     THEN Min(subs[t] + 1, MaxSubs) ELSE subs[t]]
             ELSE subs
  /\ subscribedLowFrequency' = TRUE
  /\ UNCHANGED subscribedHighFrequency

\* unsubscribeLowFrequency() without its call of unsubscribeHighFrequency()
unsubscribeLowFrequencyOnly ==
  /\ subs' = IF subscribedLowFrequency
             THEN [t \in Topics210 |->
                     IF t \in LowFrequencyTopics THEN 0 ELSE subs[t]]
             ELSE subs
  /\ subscribedLowFrequency' = FALSE
  /\ UNCHANGED subscribedHighFrequency

unsubscribeLowFrequency ==
  /\ unsubscribeHighFrequency(
       IF subscribedLowFrequency
       THEN [t \in Topics210 |->
               IF t \in LowFrequencyTopics THEN 0 ELSE subs[t]]
       ELSE subs)
  /\ subscribedLowFrequency' = FALSE

\* what no function of release 2.1.0 writes
unused210 == <<user_token, isActive, telemetryToSend, bulkInFlight, seq,
               acked, delivered, lastPowerEvent, envVars, vehicleType,
               result>>

\* sendTelemetryIfNecessary(), the handler of ticker.10, vehicle.on and
\* vehicle.off
sendTelemetryIfNecessary(topic) ==
  /\ topic \in LowFrequencyTopics
  /\ subs[topic] > 0
  /\ \E currentTelemetry \in Pushed(createTelemetry, TRUE, collectedMetrics) :
       /\ IF ElapsedAtLeast(currentTelemetry, lastSentTelemetry,
                            maxElapsedDuration(currentTelemetry))
          THEN /\ sendTelemetry(currentTelemetry)
               /\ lastSentTelemetry' = currentTelemetry
          ELSE UNCHANGED <<singleInFlight, lastSentTelemetry>>
       /\ IF Truthy(currentTelemetry, "is_parked")
          THEN unsubscribeHighFrequency(subs)
          ELSE subscribeHighFrequency(subs)
  /\ collectedMetrics' = <<>>
  /\ lastCompletion' = "none"
  /\ lastNotify' = <<>>
  /\ UNCHANGED <<cfgToken, subscribedLowFrequency, unused210>>

\* collectHighFrequencyMetrics(), the handler of ticker.1
collectHighFrequencyMetrics ==
  /\ subs["ticker.1"] > 0
  /\ IF {"v.b.power", "v.p.speed"} \subseteq DOMAIN Fresh
     THEN /\ Len(collectedMetrics) < MaxCollected
          /\ collectedMetrics' =
               Append(collectedMetrics,
                      [power |-> Fresh["v.b.power"],
                       speed |-> Fresh["v.p.speed"]])
     ELSE UNCHANGED collectedMetrics
  /\ lastCompletion' = "none"
  /\ lastNotify' = <<>>
  /\ UNCHANGED <<cfgToken, subs, flags, lastSentTelemetry, singleInFlight,
                 user_token, isActive, telemetryToSend, bulkInFlight, seq,
                 acked, delivered, lastPowerEvent, envVars, vehicleType,
                 result>>

\* send(onoff) of release 2.1.0, a shell command
Send210(onoff) ==
  /\ IF onoff
     THEN IF cfgToken = NoToken
          THEN /\ lastNotify' = <<TokenNotSet>>
               /\ UNCHANGED <<subs, flags>>
          ELSE IF subscribedLowFrequency
          THEN /\ lastNotify' = <<"warn: Already running !">>
               /\ UNCHANGED <<subs, flags>>
          ELSE /\ subscribeLowFrequency
               /\ lastNotify' = <<"info: ABRP::started">>
     ELSE IF ~subscribedLowFrequency
          THEN /\ lastNotify' = <<"warn: Already stopped !">>
               /\ UNCHANGED <<subs, flags>>
          ELSE /\ unsubscribeLowFrequency
               /\ lastNotify' = <<"info: ABRP::stopped">>
  /\ lastCompletion' = "none"
  /\ UNCHANGED <<cfgToken, collectedMetrics, lastSentTelemetry,
                 singleInFlight, unused210>>

\* onetime() of release 2.1.0, a shell command
Onetime210 ==
  /\ IF cfgToken = NoToken
     THEN /\ lastNotify' = <<TokenNotSet>>
          /\ UNCHANGED singleInFlight
     ELSE /\ sendTelemetry(createTelemetry)
          /\ lastNotify' = <<>>
  /\ lastCompletion' = "none"
  /\ UNCHANGED <<cfgToken, subs, flags, collectedMetrics, lastSentTelemetry,
                 unused210>>

\* resetConfig() of release 2.1.0, a shell command
ResetConfig210 ==
  /\ cfgToken' = NoToken
  /\ lastNotify' = <<"info: ABRP::usr abrp config reset">>
  /\ lastCompletion' = "none"
  /\ UNCHANGED <<subs, flags, collectedMetrics, lastSentTelemetry,
                 singleInFlight, unused210>>

\* release 2.1.0 as loaded
Init210 ==
  /\ cfgToken \in Tokens \cup {NoToken}
  /\ user_token = NoToken
  /\ isActive = FALSE
  /\ subs = [t \in Topics210 |-> 0]
  /\ collectedMetrics = <<>>
  /\ telemetryToSend = <<>>
  /\ lastSentTelemetry = ("utc" :> 0)
  /\ bulkInFlight = <<>>
  /\ singleInFlight = <<>>
  /\ lastNotify = <<>>
  /\ now \in {0, 1}
  /\ raw \in Situations
  /\ vehicleType = Unlisted
  /\ seq = 0
  /\ acked = {}
  /\ delivered = <<>>
  /\ lastPowerEvent = <<>>
  /\ lastCompletion = "none"
  /\ subscribedLowFrequency = FALSE
  /\ subscribedHighFrequency = FALSE
  /\ result = [fn |-> "none"]

Next210 ==
  \/ \E onoff \in BOOLEAN : Send210(onoff)
  \/ Onetime210
  \/ ResetConfig210
  \/ \E topic \in LowFrequencyTopics : sendTelemetryIfNecessary(topic)
  \/ collectHighFrequencyMetrics
  \/ \E i \in 1..Len(singleInFlight) : SingleCompleted(i)
  \/ \E token \in Tokens : ConfigSet(token)
  \/ TimePasses
  \/ \E s \in Situations : VehicleChange(s)

SpecRelease210 == Init210 /\ [][Next210]_vars

(***************************************************************************)
(* The subscription state machine of release 2.1.0 alone: a token is       *)
(* configured, and send(true), send(false), the tickers and the            *)
(* vehicle.on and vehicle.off events arrive in any order while the vehicle *)
(* is driven and parked.                                                   *)
(***************************************************************************)
DrivenOrParked == {Driving(5000), Parked(FALSE, "standard", 50, 0)}

InitSubscriptions210 ==
  /\ Init210
  /\ cfgToken \in Tokens
  /\ now = 1
  /\ raw \in DrivenOrParked

NextSubscriptions210 ==
  \/ \E onoff \in BOOLEAN : Send210(onoff)
  \/ \E topic \in LowFrequencyTopics : sendTelemetryIfNecessary(topic)
  \/ collectHighFrequencyMetrics
  \/ \E i \in 1..Len(singleInFlight) : SingleCompleted(i)
  \/ TimePasses
  \/ \E s \in DrivenOrParked : VehicleChange(s)

SpecSubscriptions210 == InitSubscriptions210 /\ [][NextSubscriptions210]_vars

(***************************************************************************)
(* C37.  High-frequency collection is on only while the low-frequency      *)
(* sender is on.                                                           *)
(***************************************************************************)
\* a low-frequency pass
C37_Pass == \E topic \in LowFrequencyTopics : sendTelemetryIfNecessary(topic)

\* C37: in every reachable state of release 2.1.0 subscribedHighFrequency
\* implies subscribedLowFrequency, and after a low-frequency pass
\* subscribedHighFrequency is true exactly when the snapshot of that pass
\* was not parked.
C37_HighOnlyWhileLow ==
  /\ [](subscribedHighFrequency => subscribedLowFrequency)
  /\ [][C37_Pass => (subscribedHighFrequency'
                       = ~Truthy(createTelemetry, "is_parked"))]_vars

\* high-frequency collection is on and has collected a reading, the
\* sender being on
C37_Witness ==
  /\ subscribedHighFrequency
  /\ subscribedLowFrequency
  /\ subs["ticker.1"] = 1
  /\ collectedMetrics # <<>>

(***************************************************************************)
(* C38.  In release 2.1.0 the last-sent snapshot advances only when a      *)
(* request was issued.                                                     *)
(***************************************************************************)
\* C38: in every step of sendTelemetryIfNecessary, lastSentTelemetry is
\* replaced by the current snapshot only if sendTelemetry issued an HTTP
\* request for that snapshot in the step; when the user token is missing
\* at send time, lastSentTelemetry is left as it was.
C38_AdvancesOnlyWhenSent ==
  [][lastSentTelemetry' # lastSentTelemetry
       => /\ cfgToken # NoToken
          /\ singleInFlight' = Append(singleInFlight,
                                      [token |-> cfgToken,
                                       tlm |-> lastSentTelemetry'])]_vars

====
